---- MODULE Spec2Model ----
(***************************************************************************)
(* A model of the session/store facade of matrix-sdk-base                  *)
(* (crates/matrix-sdk-base/src/store/mod.rs): BaseStateStore, its room     *)
(* table (an ObservableMap behind a std RwLock), the single-assignment     *)
(* session identity, the sync token, and the durable StateStore behind it. *)
(* Tasks call the store's operations concurrently; every operation is cut  *)
(* at its await points and where it waits for the table's lock. A critical *)
(* section of one table operation (get_or_create, remove) is one step; the *)
(* restore loop of set_or_reload_session is one step per room.             *)
(***************************************************************************)
EXTENDS Integers, Sequences, FiniteSets, TLC

\* ---------------------------------------------------------------- bounds
MaxCalls == 3
MaxSubs == 2

\* Calls in flight occupy the slots of Tasks; a new call takes the lowest
\* free slot.
Tasks == {1, 2}
RoomIds == {1, 2}
RoomStates == {"Joined", "Invited"}
\* Every set_or_reload_session call passes a SessionMeta of its own: the
\* number of the call.
SessionMetas == 1..MaxCalls
SyncTokens == {"s1"}

NoTask == 0
NoMeta == 0
NoToken == "none"
NoRoom == [room_id |-> 0, state |-> "none", obj |-> 0]

\* ------------------------------------------------------------- variables
VARIABLES
    inner,          \* the durable StateStore: persisted room infos and key-value area
    session_meta,   \* OnceCell<SessionMeta>
    sync_token,     \* RwLock<Option<String>>
    rooms,          \* ObservableMap<OwnedRoomId, Room>: [mapping, values]
    rooms_lock,     \* the StdRwLock around rooms: [writer, readers]
    subs,           \* the subscribers handed out by rooms_stream()
    pc,             \* where each call in flight stands
    frame,          \* each call's arguments and locals
    last,           \* the call that ended last, and what it returned
    next_obj,       \* allocator of Room objects (identity of an Arc)
    calls,          \* number of calls started
    commit,         \* history: what the call that committed the identity had done,
                    \* and the rooms forget_room took out of the table
    sync_lock,      \* Mutex<()>: the task that holds the synchronization gate
    hist,           \* history of the sync cycles: whose write came last, whose writes
                    \* another cycle's write followed, the cursors loaded and saved
    changes,        \* a StateChanges under construction
    saved,          \* history: the batches handed to save_changes, merged into one
    adds,           \* number of accumulation operations made
    sort,           \* the call of a sorter of the room list in flight, if any
    view,           \* the room table a pipeline reads, its projection and its diffs
    ntf,            \* the notification client: its last call and the client behind it
    tl              \* a room's timeline: its items, its read marker, its last update

gateVars == <<sync_lock, hist>>
batchVars == <<changes, saved, adds>>
uiVars == <<sort, view, ntf, tl>>

vars == <<inner, session_meta, sync_token, rooms, rooms_lock, subs, pc, frame,
          last, next_obj, calls, commit, sync_lock, hist, changes, saved, adds, sort,
          view, ntf, tl>>

\* ------------------------------------------------------------- utilities
RECURSIVE SeqIds(_)
SeqIds(s) == IF s = <<>> THEN {} ELSE {Head(s).room_id} \cup SeqIds(Tail(s))

RemoveAt(s, i) == SubSeq(s, 1, i - 1) \o SubSeq(s, i + 1, Len(s))

\* ------------------------------------------------------- ObservableMap
PushBack(v) == [kind |-> "PushBack", index |-> 0, value |-> v]
SetAt(i, v) == [kind |-> "Set", index |-> i, value |-> v]
RemoveDiff(i) == [kind |-> "Remove", index |-> i, value |-> NoRoom]

OM_new == [mapping |-> <<>>, values |-> <<>>]

OM_contains(om, key) == key \in DOMAIN om.mapping

OM_get(om, key) == IF OM_contains(om, key) THEN om.values[om.mapping[key]] ELSE NoRoom

OM_push(om, key, value) ==
    [map |-> [mapping |-> om.mapping @@ (key :> Len(om.values) + 1),
              values |-> Append(om.values, value)],
     diffs |-> <<PushBack(value)>>]

OM_insert(om, key, value) ==
    IF OM_contains(om, key)
    THEN [map |-> [om EXCEPT !.values[om.mapping[key]] = value],
          diffs |-> <<SetAt(om.mapping[key], value)>>]
    ELSE OM_push(om, key, value)

OM_get_or_create(om, key, value) ==
    IF OM_contains(om, key)
    THEN [map |-> om, diffs |-> <<>>]
    ELSE OM_push(om, key, value)

OM_remove(om, key) ==
    IF OM_contains(om, key)
    THEN LET pos == om.mapping[key]
         IN [map |-> [mapping |-> [k \in DOMAIN om.mapping \ {key} |->
                                     IF om.mapping[k] > pos THEN om.mapping[k] - 1
                                     ELSE om.mapping[k]],
                      values |-> RemoveAt(om.values, pos)],
             diffs |-> <<RemoveDiff(pos)>>]
    ELSE [map |-> om, diffs |-> <<>>]

\* Every subscriber has its own buffered channel; a mutation's diffs are
\* appended to each of them.
\* (mutant) only the first subscriber is served.
BroadcastFirst(ss, diffs) ==
    [i \in DOMAIN ss |-> IF i = 1 THEN [ss[i] EXCEPT !.chan = @ \o diffs] ELSE ss[i]]

Broadcast(ss, diffs) ==
    [i \in DOMAIN ss |-> [ss[i] EXCEPT !.chan = @ \o diffs]]

ApplyDiff(seq, d) ==
    CASE d.kind = "PushBack" -> Append(seq, d.value)
      [] d.kind = "Set" -> IF d.index \in 1..Len(seq) THEN [seq EXCEPT ![d.index] = d.value] ELSE seq
      [] d.kind = "Remove" -> IF d.index \in 1..Len(seq) THEN RemoveAt(seq, d.index) ELSE seq
      [] OTHER -> seq

RECURSIVE Replay(_, _)
Replay(seq, diffs) ==
    IF diffs = <<>> THEN seq ELSE Replay(ApplyDiff(seq, Head(diffs)), Tail(diffs))

\* ------------------------------------------------------- StateChanges
\* A BTreeMap is the function from the keys it holds to their values.
Map_new == <<>>

Map_insert(m, k, v) == [x \in DOMAIN m \cup {k} |-> IF x = k THEN v ELSE m[x]]

\* m.entry(k).or_default()
Map_entry(m, k) == IF k \in DOMAIN m THEN m[k] ELSE Map_new

\* StateChanges::default()
StateChanges_default ==
    [sync_token |-> NoToken, account_data |-> Map_new, presence |-> Map_new,
     profiles |-> Map_new, profiles_to_delete |-> Map_new, state |-> Map_new,
     room_account_data |-> Map_new, room_infos |-> Map_new, receipts |-> Map_new,
     redactions |-> Map_new, stripped_state |-> Map_new, ambiguity_maps |-> Map_new]

\* StateChanges::new(sync_token)
StateChanges_new(token) == [StateChanges_default EXCEPT !.sync_token = token]

\* self.presence.insert(event.sender, raw_event)
add_presence_event(c, event, raw_event) ==
    [c EXCEPT !.presence = Map_insert(@, event.sender, raw_event)]

\* self.room_infos.insert(room.room_id.clone(), room)
add_room(c, room) == [c EXCEPT !.room_infos = Map_insert(@, room.room_id, room)]

\* self.room_account_data.entry(room_id).or_default().insert(event.event_type(), raw_event)
add_room_account_data(c, room_id, event, raw_event) ==
    [c EXCEPT !.room_account_data =
        Map_insert(@, room_id, Map_insert(Map_entry(@, room_id), event.event_type, raw_event))]

\* self.stripped_state.entry(room_id).or_default().entry(StateEventType::RoomMember)
\*     .or_default().insert(user_id.into(), event.cast())
add_stripped_member(c, room_id, user_id, event) ==
    [c EXCEPT !.stripped_state =
        LET of_room == Map_entry(@, room_id)
            of_type == Map_entry(of_room, "m.room.member")
        IN Map_insert(@, room_id,
                      Map_insert(of_room, "m.room.member", Map_insert(of_type, user_id, event)))]

\* (mutant) an event already held under the key is kept.
add_state_event_keep(c, room_id, event, raw_event) ==
    [c EXCEPT !.state =
        LET of_room == Map_entry(@, room_id)
            of_type == Map_entry(of_room, event.event_type)
        IN Map_insert(@, room_id,
                      Map_insert(of_room, event.event_type,
                                 IF event.state_key \in DOMAIN of_type THEN of_type
                                 ELSE Map_insert(of_type, event.state_key, raw_event)))]

\* self.state.entry(room_id).or_default().entry(event.event_type()).or_default()
\*     .insert(event.state_key().to_owned(), raw_event)
add_state_event(c, room_id, event, raw_event) ==
    [c EXCEPT !.state =
        LET of_room == Map_entry(@, room_id)
            of_type == Map_entry(of_room, event.event_type)
        IN Map_insert(@, room_id,
                      Map_insert(of_room, event.event_type,
                                 Map_insert(of_type, event.state_key, raw_event)))]

\* (mutant) a redaction is recorded only when the batch holds its target.
add_redaction_checked(c, room_id, redacted_event_id, redaction) ==
    IF \E ty \in DOMAIN Map_entry(c.state, room_id) :
         \E k \in DOMAIN c.state[room_id][ty] :
            c.state[room_id][ty][k].event_id = redacted_event_id
    THEN [c EXCEPT !.redactions =
            Map_insert(@, room_id, Map_insert(Map_entry(@, room_id), redacted_event_id, redaction))]
    ELSE c

\* self.redactions.entry(room_id).or_default().insert(redacted_event_id, redaction)
add_redaction(c, room_id, redacted_event_id, redaction) ==
    [c EXCEPT !.redactions =
        Map_insert(@, room_id, Map_insert(Map_entry(@, room_id), redacted_event_id, redaction))]

\* (mutant) the receipts of the batch are replaced by the one given.
add_receipts_only(c, room_id, event) == [c EXCEPT !.receipts = Map_insert(Map_new, room_id, event)]

\* self.receipts.insert(room_id.to_owned(), event)
add_receipts(c, room_id, event) == [c EXCEPT !.receipts = Map_insert(@, room_id, event)]

\* ------------------------------------------------- the durable store
\* A map laid over another: the entries of over, and those of under at the
\* keys over has none for.
Overlay1(under, over) ==
    [k \in DOMAIN under \cup DOMAIN over |-> IF k \in DOMAIN over THEN over[k] ELSE under[k]]

Overlay2(under, over) ==
    [k \in DOMAIN under \cup DOMAIN over |->
        Overlay1(Map_entry(under, k), Map_entry(over, k))]

Overlay3(under, over) ==
    [k \in DOMAIN under \cup DOMAIN over |->
        Overlay2(Map_entry(under, k), Map_entry(over, k))]

\* A stored state event of a room is redacted when the batch redacts its id.
Redact(state, redactions) ==
    [r \in DOMAIN state |->
       [ty \in DOMAIN state[r] |->
          [k \in DOMAIN state[r][ty] |->
             IF state[r][ty][k].event_id \in DOMAIN Map_entry(redactions, r)
             THEN [state[r][ty][k] EXCEPT !.redacted = TRUE]
             ELSE state[r][ty][k]]]]

\* The record the store keeps of a room info.
Record(room_info) == [state |-> room_info.state, migrated |-> room_info.migrated]

\* (mutant) a room the store has a record of keeps it.
SaveChanges_KeepRooms(store, c) ==
    [store EXCEPT
       !.room_infos = Overlay1([k \in DOMAIN c.room_infos |-> Record(c.room_infos[k])], @)]

\* StateStore::save_changes: every section of the batch is laid over what
\* the store holds; then the batch's redactions are applied to the state
\* events stored for their rooms.
SaveChanges(store, c) ==
    [sync_token |-> IF c.sync_token # NoToken THEN c.sync_token ELSE store.sync_token,
     room_infos |-> Overlay1(store.room_infos,
                             [k \in DOMAIN c.room_infos |-> Record(c.room_infos[k])]),
     state |-> Redact(Overlay3(store.state, c.state), c.redactions),
     room_account_data |-> Overlay2(store.room_account_data, c.room_account_data),
     presence |-> Overlay1(store.presence, c.presence),
     receipts |-> Overlay1(store.receipts, c.receipts),
     stripped_state |-> Overlay3(store.stripped_state, c.stripped_state)]

\* A store that holds nothing.
Store_new ==
    [sync_token |-> NoToken, room_infos |-> Map_new, state |-> Map_new,
     room_account_data |-> Map_new, presence |-> Map_new, receipts |-> Map_new,
     stripped_state |-> Map_new]

\* ------------------------------------------------------------ the store
Frame0 == [op |-> "none", room_id |-> 0, state |-> "none", meta |-> NoMeta,
           room_infos |-> <<>>, migrated_room_infos |-> <<>>, token |-> NoToken,
           base |-> <<>>, loaded |-> {}, inserted |-> {}, token_loaded |-> FALSE,
           had_meta |-> FALSE, removed |-> FALSE,
           changes |-> StateChanges_default, todo |-> <<>>, cycle |-> 0, gate |-> FALSE,
           save_failed |-> FALSE]

Last0 == [op |-> "none", res |-> "None", room |-> NoRoom, room_id |-> 0, state |-> "none",
          list |-> <<>>]

Commit0 == [done |-> FALSE, loaded |-> {}, inserted |-> {}, token_loaded |-> FALSE,
            forgotten |-> {}]

Hist0 == [cur |-> 0, done |-> {}, loaded |-> {}, saved |-> {}]

Saved0 == [merged |-> StateChanges_default, unknown |-> {}, overrode |-> {}]

\* Option<u64>::None
NoCount == -1

\* What the sorters read of a room.
Room0 ==
    [room_id |-> 1, state |-> "Joined", is_favourite |-> FALSE, is_low_priority |-> FALSE,
     is_marked_unread |-> FALSE, num_unread_mentions |-> 0, num_unread_notifications |-> 0,
     num_unread_messages |-> 0, notification_count |-> 0, unread_count |-> NoCount,
     latest_event_is_local |-> FALSE, recency |-> 1, name |-> "alpha"]

ScSortOrder_default ==
    [by_unread |-> FALSE, pin_favorites |-> FALSE, bury_low_priority |-> FALSE,
     client_generated_unread |-> FALSE, with_silent_unread |-> FALSE]

\* No sorter is built.
Sort0 ==
    [op |-> "none", sort_order |-> ScSortOrder_default, enable_latest_event_sorter |-> FALSE,
     sorters |-> <<>>, called |-> FALSE, left |-> Room0, right |-> Room0,
     ordering |-> "none"]

\* No pipeline reads the room table, which is empty.
View0 ==
    [open |-> FALSE, sort_order |-> ScSortOrder_default, sorters |-> <<>>,
     filter |-> [rooms |-> {}, favourite |-> FALSE], table |-> <<>>,
     input |-> [kind |-> "none"], projection |-> <<>>, out |-> <<>>, replayed |-> <<>>]

\* No call of the notification client was made.
NoId == <<>>

Ntf0 ==
    [op |-> "none", room_id |-> NoId, event_id |-> NoId, result |-> [kind |-> "none"],
     client |-> [rooms |-> {}, queried |-> {}]]

\* No event: what fully_read_event holds before a fully-read marker came.
NoEvent == 0

\* A timeline nothing was received for.
Timeline0 == [items |-> <<>>, fully_read_event |-> NoEvent, batch |-> <<>>, updates |-> <<>>]

\* What the durable store holds for a room it has a record of: room 1 is a
\* joined room whose record still needs a migration, the others are invited
\* rooms whose records are current.
Persisted(room_id) ==
    [state |-> IF room_id = 1 THEN "Joined" ELSE "Invited", migrated |-> room_id # 1]

Init ==
    /\ \E S \in SUBSET RoomIds, token \in SyncTokens \cup {NoToken} :
         inner = [Store_new EXCEPT !.room_infos = [k \in S |-> Persisted(k)],
                                   !.sync_token = token]
    /\ session_meta = NoMeta
    /\ sync_token = NoToken
    /\ rooms = OM_new
    /\ rooms_lock = [writer |-> NoTask, readers |-> {}]
    /\ subs = <<>>
    /\ pc = [t \in Tasks |-> "idle"]
    /\ frame = [t \in Tasks |-> Frame0]
    /\ last = Last0
    /\ next_obj = 1
    /\ calls = 0
    /\ commit = Commit0
    /\ sync_lock = NoTask
    /\ hist = Hist0
    /\ changes = StateChanges_default
    /\ saved = Saved0
    /\ adds = 0
    /\ sort = Sort0
    /\ view = View0
    /\ ntf = Ntf0
    /\ tl = Timeline0

\* ----------------------------------------------------------- helpers
Restore(room_info, obj) == [room_id |-> room_info.room_id, state |-> room_info.state, obj |-> obj]

NewRoom(room_id, room_type, obj) == [room_id |-> room_id, state |-> room_type, obj |-> obj]

CanWrite(t) == rooms_lock.writer = NoTask /\ rooms_lock.readers = {}

\* (mutant) the read guard is not waited for.
CanReadUnlocked(t) == TRUE

\* (mutant) a read waits for the synchronization gate as well.
CanReadGated(t) == rooms_lock.writer = NoTask /\ sync_lock = NoTask

CanRead(t) == rooms_lock.writer = NoTask

\* (mutant) the guard outlives the block it was taken in.
StillLocked(t) == rooms_lock

Unlocked(t) == [writer |-> IF rooms_lock.writer = t THEN NoTask ELSE rooms_lock.writer,
                readers |-> rooms_lock.readers \ {t}]

Begin(t) ==
    /\ pc[t] = "idle"
    /\ \A u \in Tasks : u < t => pc[u] # "idle"
    /\ calls < MaxCalls
    /\ calls' = calls + 1

\* The call in slot t ends with result res; its locals are dropped.
End(t, f, res, room) ==
    /\ pc' = [pc EXCEPT ![t] = "idle"]
    /\ frame' = [frame EXCEPT ![t] = Frame0]
    /\ last' = [op |-> f.op, res |-> res, room |-> room, room_id |-> f.room_id,
                state |-> f.state, list |-> <<>>]

Goto(t, f, to) ==
    /\ pc' = [pc EXCEPT ![t] = to]
    /\ frame' = [frame EXCEPT ![t] = f]
    /\ last' = last

\* History: the diffs applied to the table since each subscription.
Due(ss, diffs) == [i \in DOMAIN ss |-> [ss[i] EXCEPT !.due = @ \o diffs]]

Notify(diffs) == subs' = Due(Broadcast(subs, diffs), diffs)

\* ------------------------------------------- set_or_reload_session
\* The order of the statements of set_or_reload_session: load the room
\* infos, take the write lock, insert every room, release the lock, read
\* the sync token from the key-value area, store it, commit the identity.
\* (mutant) the identity is committed right after the load.
SorsNextCommitFirst(phase) ==
    CASE phase = "sors_load" -> "sors_set"
      [] phase = "sors_set" -> "sors_wlock"
      [] phase = "sors_wlock" -> "sors_insert"
      [] phase = "sors_insert" -> "sors_kv"
      [] phase = "sors_kv" -> "sors_token"
      [] phase = "sors_token" -> "done"

\* (mutant) the identity is committed before the cursor is read.
SorsNextCommitBeforeCursor(phase) ==
    CASE phase = "sors_load" -> "sors_wlock"
      [] phase = "sors_wlock" -> "sors_insert"
      [] phase = "sors_insert" -> "sors_set"
      [] phase = "sors_set" -> "sors_kv"
      [] phase = "sors_kv" -> "sors_token"
      [] phase = "sors_token" -> "done"

SorsNext(phase) ==
    CASE phase = "sors_load" -> "sors_wlock"
      [] phase = "sors_wlock" -> "sors_insert"
      [] phase = "sors_insert" -> "sors_kv"
      [] phase = "sors_kv" -> "sors_token"
      [] phase = "sors_token" -> "sors_set"
      [] phase = "sors_set" -> "done"

SorsGoto(t, f, from) ==
    IF SorsNext(from) = "done" THEN End(t, f, "Ok", NoRoom) ELSE Goto(t, f, SorsNext(from))

\* The records of the durable store, in the order of their room ids.
RECURSIVE GetRoomInfos(_, _)
GetRoomInfos(stored, ids) ==
    IF ids = {} THEN <<>>
    ELSE LET k == CHOOSE x \in ids : \A y \in ids : x <= y
         IN <<[room_id |-> k, state |-> stored[k].state, migrated |-> stored[k].migrated]>>
            \o GetRoomInfos(stored, ids \ {k})

\* room_info.apply_migrations(..): brings the record to the current shape
\* and tells whether it changed it.
ApplyMigrations(room_info) ==
    [room_info |-> [room_info EXCEPT !.migrated = TRUE], changed |-> ~room_info.migrated]

\* (mutant) the batch carries the records as they were stored.
MigratedChanges_Stale(migrated_room_infos) ==
    [StateChanges_default EXCEPT !.room_infos =
        [k \in SeqIds(migrated_room_infos) |->
           [room_id |-> k, state |-> inner.room_infos[k].state,
            migrated |-> inner.room_infos[k].migrated]]]

\* StateChanges { room_infos: migrated_room_infos.into_iter()
\*     .map(|room_info| (room_info.room_id.clone(), room_info)).collect(),
\*     ..Default::default() }
MigratedChanges(migrated_room_infos) ==
    [StateChanges_default EXCEPT !.room_infos =
        [k \in SeqIds(migrated_room_infos) |->
           migrated_room_infos[CHOOSE i \in DOMAIN migrated_room_infos :
                                  /\ migrated_room_infos[i].room_id = k
                                  /\ \A j \in DOMAIN migrated_room_infos :
                                       migrated_room_infos[j].room_id = k => j <= i]]]

\* load_room_infos: get_room_infos().await?, then apply_migrations on each.
LoadRoomInfos_Get(t) ==
    /\ Begin(t)
    /\ LET meta == calls + 1 IN
         LET f0 == [Frame0 EXCEPT !.op = "sors", !.meta = meta,
                                  !.had_meta = session_meta # NoMeta]
         IN \/ End(t, f0, "Err", NoRoom)
            \/ LET stored == GetRoomInfos(inner.room_infos, DOMAIN inner.room_infos)
                   room_infos == [i \in 1..Len(stored) |-> ApplyMigrations(stored[i]).room_info]
                   migrated_room_infos ==
                       SelectSeq(room_infos,
                                 LAMBDA ri : ~inner.room_infos[ri.room_id].migrated)
                   f == [f0 EXCEPT !.room_infos = room_infos,
                                   !.migrated_room_infos = migrated_room_infos,
                                   !.loaded = SeqIds(room_infos)]
               IN IF migrated_room_infos # <<>>
                  THEN Goto(t, [f EXCEPT !.changes = MigratedChanges(migrated_room_infos)],
                            "sors_resave")
                  ELSE SorsGoto(t, f, "sors_load")
    /\ UNCHANGED <<inner, session_meta, sync_token, rooms, rooms_lock, subs, next_obj, commit>>
    /\ UNCHANGED <<gateVars, batchVars, uiVars>>

\* (mutant) a failed save of the migrated room infos ends the call.
LoadRoomInfos_SaveFatal(t) ==
    /\ pc[t] = "sors_resave"
    /\ \/ /\ inner' = inner
          /\ End(t, [frame[t] EXCEPT !.save_failed = TRUE], "Err", NoRoom)
       \/ /\ inner' = SaveChanges(inner, frame[t].changes)
          /\ SorsGoto(t, [frame[t] EXCEPT !.migrated_room_infos = <<>>,
                                          !.changes = StateChanges_default], "sors_load")
    /\ UNCHANGED <<session_meta, sync_token, rooms, rooms_lock, subs, next_obj, calls, commit>>
    /\ UNCHANGED <<gateVars, batchVars, uiVars>>

\* load_room_infos: save_changes(&changes).await of the migrated room infos;
\* a failure is logged only.
LoadRoomInfos_Save(t) ==
    /\ pc[t] = "sors_resave"
    /\ \E failed \in BOOLEAN :
         /\ inner' = IF failed THEN inner ELSE SaveChanges(inner, frame[t].changes)
         /\ SorsGoto(t, [frame[t] EXCEPT !.migrated_room_infos = <<>>,
                                         !.changes = StateChanges_default,
                                         !.save_failed = failed], "sors_load")
    /\ UNCHANGED <<session_meta, sync_token, rooms, rooms_lock, subs, next_obj, calls, commit>>
    /\ UNCHANGED <<gateVars, batchVars, uiVars>>

\* let mut rooms = self.rooms.write().unwrap();
SetOrReloadSession_Lock(t) ==
    /\ pc[t] = "sors_wlock"
    /\ CanWrite(t)
    /\ rooms_lock' = [rooms_lock EXCEPT !.writer = t]
    /\ SorsGoto(t, frame[t], "sors_wlock")
    /\ UNCHANGED <<inner, session_meta, sync_token, rooms, subs, next_obj, calls, commit>>
    /\ UNCHANGED <<gateVars, batchVars, uiVars>>

\* (mutant) the restored room is appended whether or not its id is known.
SetOrReloadSession_InsertPush(t) ==
    /\ pc[t] = "sors_insert"
    /\ frame[t].room_infos # <<>>
    /\ LET room_info == Head(frame[t].room_infos)
           new_room == Restore(room_info, next_obj)
           r == OM_push(rooms, new_room.room_id, new_room)
       IN /\ rooms' = r.map
          /\ Notify(r.diffs)
          /\ frame' = [frame EXCEPT ![t].room_infos = Tail(@),
                                    ![t].inserted = @ \cup {new_room.room_id}]
          /\ commit' = [commit EXCEPT !.forgotten = @ \ {new_room.room_id}]
    /\ next_obj' = next_obj + 1
    /\ UNCHANGED <<inner, session_meta, sync_token, rooms_lock, pc, last, calls>>
    /\ UNCHANGED <<gateVars, batchVars, uiVars>>

\* (mutant) the write guard is dropped after each room.
SetOrReloadSession_InsertUnlocking(t) ==
    /\ pc[t] = "sors_insert"
    /\ frame[t].room_infos # <<>>
    /\ LET room_info == Head(frame[t].room_infos)
           new_room == Restore(room_info, next_obj)
           r == OM_insert(rooms, new_room.room_id, new_room)
       IN /\ rooms' = r.map
          /\ Notify(r.diffs)
          /\ frame' = [frame EXCEPT ![t].room_infos = Tail(@),
                                    ![t].inserted = @ \cup {new_room.room_id}]
          /\ commit' = [commit EXCEPT !.forgotten = @ \ {new_room.room_id}]
    /\ next_obj' = next_obj + 1
    /\ rooms_lock' = Unlocked(t)
    /\ UNCHANGED <<inner, session_meta, sync_token, pc, last, calls>>
    /\ UNCHANGED <<gateVars, batchVars, uiVars>>

\* One turn of the loop: Room::restore, then rooms.insert(new_room_id, new_room).
SetOrReloadSession_Insert(t) ==
    /\ pc[t] = "sors_insert"
    /\ frame[t].room_infos # <<>>
    /\ LET room_info == Head(frame[t].room_infos)
           new_room == Restore(room_info, next_obj)
           r == OM_insert(rooms, new_room.room_id, new_room)
       IN /\ rooms' = r.map
          /\ Notify(r.diffs)
          /\ frame' = [frame EXCEPT ![t].room_infos = Tail(@),
                                    ![t].inserted = @ \cup {new_room.room_id}]
          /\ commit' = [commit EXCEPT !.forgotten = @ \ {new_room.room_id}]
    /\ next_obj' = next_obj + 1
    /\ UNCHANGED <<inner, session_meta, sync_token, rooms_lock, pc, last, calls>>
    /\ UNCHANGED <<gateVars, batchVars, uiVars>>

\* The end of the block drops the write guard.
SetOrReloadSession_Unlock(t) ==
    /\ pc[t] = "sors_insert"
    /\ frame[t].room_infos = <<>>
    /\ rooms_lock' = Unlocked(t)
    /\ SorsGoto(t, frame[t], "sors_insert")
    /\ UNCHANGED <<inner, session_meta, sync_token, rooms, subs, next_obj, calls, commit>>
    /\ UNCHANGED <<gateVars, batchVars, uiVars>>

\* get_kv_data(StateStoreDataKey::SyncToken).await?
SetOrReloadSession_GetKv(t) ==
    /\ pc[t] = "sors_kv"
    /\ \/ End(t, frame[t], "Err", NoRoom) /\ UNCHANGED hist
       \/ /\ SorsGoto(t, [frame[t] EXCEPT !.token = inner.sync_token], "sors_kv")
          /\ hist' = [hist EXCEPT !.loaded = @ \cup {inner.sync_token}]
    /\ UNCHANGED <<inner, session_meta, sync_token, rooms, rooms_lock, subs, next_obj,
                   calls, commit>>
    /\ UNCHANGED <<sync_lock, batchVars, uiVars>>

\* *self.sync_token.write().await = token
SetOrReloadSession_WriteToken(t) ==
    /\ pc[t] = "sors_token"
    /\ sync_token' = frame[t].token
    /\ SorsGoto(t, [frame[t] EXCEPT !.token_loaded = TRUE], "sors_token")
    /\ UNCHANGED <<inner, session_meta, rooms, rooms_lock, subs, next_obj, calls, commit>>
    /\ UNCHANGED <<gateVars, batchVars, uiVars>>

\* self.session_meta.set(session_meta).expect("Session Meta was already set")
SetOrReloadSession_SetMeta(t) ==
    /\ pc[t] = "sors_set"
    /\ IF session_meta = NoMeta
       THEN /\ session_meta' = frame[t].meta
            /\ commit' = [commit EXCEPT !.done = TRUE, !.loaded = frame[t].loaded,
                                        !.inserted = frame[t].inserted,
                                        !.token_loaded = frame[t].token_loaded]
            /\ SorsGoto(t, frame[t], "sors_set")
       ELSE /\ End(t, frame[t], "Panic", NoRoom)
            /\ UNCHANGED <<session_meta, commit>>
    /\ UNCHANGED <<inner, sync_token, rooms, rooms_lock, subs, next_obj, calls>>
    /\ UNCHANGED <<gateVars, batchVars, uiVars>>

\* ---------------------------------------------- get_or_create_room
\* (mutant) the identity is not asked for before the table is used.
GetOrCreateRoom_CheckLate(t) ==
    /\ Begin(t)
    /\ \E room_id \in RoomIds, room_type \in RoomStates :
         Goto(t, [Frame0 EXCEPT !.op = "gocr", !.room_id = room_id, !.state = room_type],
              "gocr_wlock")
    /\ UNCHANGED <<inner, session_meta, sync_token, rooms, rooms_lock, subs, next_obj, commit>>
    /\ UNCHANGED <<gateVars, batchVars, uiVars>>

\* self.session_meta.get().expect("Creating room while not being logged in")
GetOrCreateRoom_Check(t) ==
    /\ Begin(t)
    /\ \E room_id \in RoomIds, room_type \in RoomStates :
         LET f == [Frame0 EXCEPT !.op = "gocr", !.room_id = room_id, !.state = room_type]
         IN IF session_meta = NoMeta
            THEN End(t, f, "Panic", NoRoom)
            ELSE Goto(t, f, "gocr_wlock")
    /\ UNCHANGED <<inner, session_meta, sync_token, rooms, rooms_lock, subs, next_obj, commit>>
    /\ UNCHANGED <<gateVars, batchVars, uiVars>>

\* (mutant) the new room is inserted over whatever the table holds.
GetOrCreateRoom_DoInsert(t) ==
    /\ pc[t] = "gocr_wlock"
    /\ CanWrite(t)
    /\ LET room_id == frame[t].room_id
           r == OM_insert(rooms, room_id, NewRoom(room_id, frame[t].state, next_obj))
       IN /\ rooms' = r.map
          /\ Notify(r.diffs)
          /\ next_obj' = next_obj + 1
          /\ End(t, frame[t], "Ok", OM_get(r.map, room_id))
          /\ commit' = [commit EXCEPT !.forgotten = @ \ {room_id}]
    /\ UNCHANGED <<inner, session_meta, sync_token, rooms_lock, calls>>
    /\ UNCHANGED <<gateVars, batchVars, uiVars>>

\* self.rooms.write().unwrap().get_or_create(room_id, || Room::new(..)).clone()
GetOrCreateRoom_Do(t) ==
    /\ pc[t] = "gocr_wlock"
    /\ CanWrite(t)
    /\ LET room_id == frame[t].room_id
           r == OM_get_or_create(rooms, room_id, NewRoom(room_id, frame[t].state, next_obj))
       IN /\ rooms' = r.map
          /\ Notify(r.diffs)
          /\ next_obj' = IF r.diffs = <<>> THEN next_obj ELSE next_obj + 1
          /\ End(t, frame[t], "Ok", OM_get(r.map, room_id))
          /\ commit' = [commit EXCEPT !.forgotten = @ \ {room_id}]
    /\ UNCHANGED <<inner, session_meta, sync_token, rooms_lock, calls>>
    /\ UNCHANGED <<gateVars, batchVars, uiVars>>

\* ------------------------------------------------------ forget_room
\* (mutant) the result of remove_room is dropped instead of returned.
ForgetRoom_RemoveIgnoringError(t) ==
    /\ Begin(t)
    /\ \E room_id \in RoomIds :
         LET f == [Frame0 EXCEPT !.op = "forget", !.room_id = room_id]
         IN \/ /\ Goto(t, f, "fr_wlock")
               /\ inner' = inner
            \/ /\ inner' = [inner EXCEPT !.room_infos =
                              [k \in DOMAIN @ \ {room_id} |-> @[k]]]
               /\ Goto(t, [f EXCEPT !.removed = TRUE], "fr_wlock")
    /\ UNCHANGED <<session_meta, sync_token, rooms, rooms_lock, subs, next_obj, commit>>
    /\ UNCHANGED <<gateVars, batchVars, uiVars>>

\* self.inner.remove_room(room_id).await?
ForgetRoom_Remove(t) ==
    /\ Begin(t)
    /\ \E room_id \in RoomIds :
         LET f == [Frame0 EXCEPT !.op = "forget", !.room_id = room_id]
         IN \/ /\ End(t, f, "Err", NoRoom)
               /\ inner' = inner
            \/ /\ inner' = [inner EXCEPT !.room_infos =
                              [k \in DOMAIN @ \ {room_id} |-> @[k]]]
               /\ Goto(t, [f EXCEPT !.removed = TRUE], "fr_wlock")
    /\ UNCHANGED <<session_meta, sync_token, rooms, rooms_lock, subs, next_obj, commit>>
    /\ UNCHANGED <<gateVars, batchVars, uiVars>>

\* (mutant) a room that is not in the table is an error.
ForgetRoom_DoStrict(t) ==
    /\ pc[t] = "fr_wlock"
    /\ CanWrite(t)
    /\ LET r == OM_remove(rooms, frame[t].room_id)
       IN /\ rooms' = r.map
          /\ Notify(r.diffs)
          /\ commit' = IF r.diffs # <<>>
                       THEN [commit EXCEPT !.forgotten = @ \cup {frame[t].room_id}]
                       ELSE commit
          /\ End(t, frame[t], IF r.diffs = <<>> THEN "Err" ELSE "Ok", NoRoom)
    /\ UNCHANGED <<inner, session_meta, sync_token, rooms_lock, next_obj, calls>>
    /\ UNCHANGED <<gateVars, batchVars, uiVars>>

\* self.rooms.write().unwrap().remove(room_id); Ok(())
ForgetRoom_Do(t) ==
    /\ pc[t] = "fr_wlock"
    /\ CanWrite(t)
    /\ LET r == OM_remove(rooms, frame[t].room_id)
       IN /\ rooms' = r.map
          /\ Notify(r.diffs)
          /\ commit' = IF r.diffs # <<>>
                       THEN [commit EXCEPT !.forgotten = @ \cup {frame[t].room_id}]
                       ELSE commit
    /\ End(t, frame[t], "Ok", NoRoom)
    /\ UNCHANGED <<inner, session_meta, sync_token, rooms_lock, next_obj, calls>>
    /\ UNCHANGED <<gateVars, batchVars, uiVars>>

\* ----------------------------------------------------- rooms_stream
\* self.rooms.read().unwrap()
RoomsStream_Lock(t) ==
    /\ Begin(t)
    /\ Len(subs) + Cardinality({u \in Tasks : frame[u].op = "stream"}) < MaxSubs
    /\ CanRead(t)
    /\ rooms_lock' = [rooms_lock EXCEPT !.readers = @ \cup {t}]
    /\ Goto(t, [Frame0 EXCEPT !.op = "stream"], "rs_values")
    /\ UNCHANGED <<inner, session_meta, sync_token, rooms, subs, next_obj, commit>>
    /\ UNCHANGED <<gateVars, batchVars, uiVars>>

\* (mutant) the stream is handed out with an empty baseline.
RoomsStream_ValuesEmpty(t) ==
    /\ pc[t] = "rs_values"
    /\ Goto(t, [frame[t] EXCEPT !.base = <<>>], "rs_subscribe")
    /\ UNCHANGED <<inner, session_meta, sync_token, rooms, rooms_lock, subs, next_obj,
                   calls, commit>>
    /\ UNCHANGED <<gateVars, batchVars, uiVars>>

\* .stream(): the current values ...
RoomsStream_Values(t) ==
    /\ pc[t] = "rs_values"
    /\ Goto(t, [frame[t] EXCEPT !.base = rooms.values], "rs_subscribe")
    /\ UNCHANGED <<inner, session_meta, sync_token, rooms, rooms_lock, subs, next_obj,
                   calls, commit>>
    /\ UNCHANGED <<gateVars, batchVars, uiVars>>

\* ... and the stream of the diffs to come; the read guard is dropped.
RoomsStream_Subscribe(t) ==
    /\ pc[t] = "rs_subscribe"
    /\ subs' = Append(subs, [base |-> frame[t].base, chan |-> <<>>, recv |-> <<>>,
                             due |-> <<>>, at_sub |-> rooms.values])
    /\ rooms_lock' = Unlocked(t)
    /\ End(t, frame[t], "Ok", NoRoom)
    /\ UNCHANGED <<inner, session_meta, sync_token, rooms, next_obj, calls, commit>>
    /\ UNCHANGED <<gateVars, batchVars, uiVars>>

\* A subscriber polls its stream: it is handed the batch of diffs buffered
\* for it (Stream<Item = Vec<VectorDiff<Room>>>).
Poll(s) ==
    /\ s \in DOMAIN subs
    /\ subs[s].chan # <<>>
    /\ subs' = [subs EXCEPT ![s].recv = @ \o subs[s].chan, ![s].chan = <<>>]
    /\ UNCHANGED <<inner, session_meta, sync_token, rooms, rooms_lock, pc, frame, last,
                   next_obj, calls, commit>>
    /\ UNCHANGED <<gateVars, batchVars, uiVars>>

\* ------------------------------------- rooms, rooms_filtered, room
\* RoomStateFilter::matches
Matches(filter, state) == state \in filter

\* self.rooms.read().unwrap().iter().cloned().collect()
Rooms(t) ==
    /\ Begin(t)
    /\ CanRead(t)
    /\ last' = [Last0 EXCEPT !.op = "rooms", !.res = "Ok", !.list = rooms.values]
    /\ UNCHANGED <<inner, session_meta, sync_token, rooms, rooms_lock, subs, pc, frame,
                   next_obj, commit>>
    /\ UNCHANGED <<gateVars, batchVars, uiVars>>

\* self.rooms.read().unwrap().iter().filter(|room| filter.matches(room.state()))
\*     .cloned().collect()
RoomsFiltered(t) ==
    /\ Begin(t)
    /\ CanRead(t)
    /\ \E filter \in SUBSET RoomStates :
         last' = [Last0 EXCEPT !.op = "rooms_filtered", !.res = "Ok",
                               !.list = SelectSeq(rooms.values,
                                                  LAMBDA room : Matches(filter, room.state))]
    /\ UNCHANGED <<inner, session_meta, sync_token, rooms, rooms_lock, subs, pc, frame,
                   next_obj, commit>>
    /\ UNCHANGED <<gateVars, batchVars, uiVars>>

\* self.rooms.read().unwrap().get(room_id).cloned()
Room(t) ==
    /\ Begin(t)
    /\ CanRead(t)
    /\ \E room_id \in RoomIds :
         last' = [Last0 EXCEPT !.op = "room", !.res = "Ok", !.room_id = room_id,
                               !.room = OM_get(rooms, room_id)]
    /\ UNCHANGED <<inner, session_meta, sync_token, rooms, rooms_lock, subs, pc, frame,
                   next_obj, commit>>
    /\ UNCHANGED <<gateVars, batchVars, uiVars>>

\* ------------------------------------------------------ a sync cycle
\* One cycle of the sync loop applies the batch of one response: it takes
\* the synchronization gate, saves the batch, gets or creates the room of
\* every room id the batch names, advances the sync token to the batch's,
\* and leaves the gate.
\* (mutant) the rooms are made before the gate is taken.
SyncCycle_AfterRoomsFirst(phase) ==
    CASE phase = "sy_begin" -> "sy_rooms"
      [] phase = "sy_rooms" -> "sy_gate"
      [] phase = "sy_gate" -> "sy_save"
      [] phase = "sy_save" -> "sy_token"
      [] phase = "sy_token" -> "done"

\* (mutant) the token is advanced before the batch is saved.
SyncCycle_AfterTokenFirst(phase) ==
    CASE phase = "sy_begin" -> "sy_gate"
      [] phase = "sy_gate" -> "sy_token"
      [] phase = "sy_token" -> "sy_save"
      [] phase = "sy_save" -> "sy_rooms"
      [] phase = "sy_rooms" -> "done"

SyncCycle_After(phase) ==
    CASE phase = "sy_begin" -> "sy_gate"
      [] phase = "sy_gate" -> "sy_save"
      [] phase = "sy_save" -> "sy_rooms"
      [] phase = "sy_rooms" -> "sy_token"
      [] phase = "sy_token" -> "done"

\* The gate as the task leaves it when its guard is dropped.
Released(t) == IF sync_lock = t THEN NoTask ELSE sync_lock

\* The cycle goes on to its next phase; after the last one the guard of the
\* gate is dropped and the cycle returns.
SyncCycle_Goto(t, f, from) ==
    IF SyncCycle_After(from) = "done"
    THEN End(t, f, "Ok", NoRoom) /\ sync_lock' = Released(t)
    ELSE Goto(t, f, SyncCycle_After(from)) /\ sync_lock' = sync_lock

\* History: cycle c has written (the durable store, the table or the token).
Wrote(h, c) ==
    IF h.cur = c THEN h
    ELSE [h EXCEPT !.cur = c, !.done = IF h.cur = 0 THEN @ ELSE @ \cup {h.cur}]

RECURSIVE Ascending(_)
Ascending(ids) ==
    IF ids = {} THEN <<>>
    ELSE LET k == CHOOSE x \in ids : \A y \in ids : x <= y
         IN <<k>> \o Ascending(ids \ {k})

\* The room info the response carries for a room: the response lists
\* room 1 among the joined rooms, the others among the invited ones.
Synced(room_id) ==
    [room_id |-> room_id, state |-> IF room_id = 1 THEN "Joined" ELSE "Invited",
     migrated |-> TRUE]

RECURSIVE AddRooms(_, _)
AddRooms(c, ids) ==
    IF ids = <<>> THEN c
    ELSE AddRooms(add_room(c, Synced(Head(ids))), Tail(ids))

\* A response arrives: its batch carries the next sync token and a room info
\* for every room of the response.
SyncCycle_Begin(t) ==
    /\ Begin(t)
    /\ \E ids \in SUBSET RoomIds \ {{}} :
         LET token == "b" \o ToString(calls + 1)
             f == [Frame0 EXCEPT !.op = "sync", !.cycle = calls + 1,
                                 !.todo = Ascending(ids),
                                 !.changes = AddRooms(StateChanges_new(token), Ascending(ids))]
         IN SyncCycle_Goto(t, f, "sy_begin")
    /\ UNCHANGED <<inner, session_meta, sync_token, rooms, rooms_lock, subs, next_obj,
                   commit, hist>>
    /\ UNCHANGED <<batchVars, uiVars>>

\* The caller drops the cycle while it waits for the gate.
SyncCycle_Cancel(t) ==
    /\ pc[t] = "sy_gate"
    /\ End(t, frame[t], "Cancelled", NoRoom)
    /\ UNCHANGED <<inner, session_meta, sync_token, rooms, rooms_lock, subs, next_obj,
                   calls, commit>>
    /\ UNCHANGED <<gateVars, batchVars, uiVars>>

\* (mutant) the gate is entered without waiting for it.
SyncCycle_LockNoWait(t) ==
    /\ pc[t] = "sy_gate"
    /\ Goto(t, [frame[t] EXCEPT !.gate = TRUE], SyncCycle_After("sy_gate"))
    /\ sync_lock' = t
    /\ UNCHANGED <<inner, session_meta, sync_token, rooms, rooms_lock, subs, next_obj,
                   calls, commit, hist>>
    /\ UNCHANGED <<batchVars, uiVars>>

\* let _sync_lock = self.sync_lock().lock().await
SyncCycle_Lock(t) ==
    /\ pc[t] = "sy_gate"
    /\ sync_lock = NoTask
    /\ Goto(t, [frame[t] EXCEPT !.gate = TRUE], SyncCycle_After("sy_gate"))
    /\ sync_lock' = t
    /\ UNCHANGED <<inner, session_meta, sync_token, rooms, rooms_lock, subs, next_obj,
                   calls, commit, hist>>
    /\ UNCHANGED <<batchVars, uiVars>>

\* save_changes(&changes).await?: the save fails, or the caller drops the
\* cycle while it waits for the store, or the batch is saved.
SyncCycle_Save(t) ==
    /\ pc[t] = "sy_save"
    /\ \/ /\ \E res \in {"Err", "Cancelled"} : End(t, frame[t], res, NoRoom)
          /\ sync_lock' = Released(t)
          /\ UNCHANGED <<inner, hist>>
       \/ /\ inner' = SaveChanges(inner, frame[t].changes)
          /\ hist' = [Wrote(hist, frame[t].cycle) EXCEPT
                        !.saved = @ \cup {frame[t].changes.sync_token}]
          /\ SyncCycle_Goto(t, frame[t], "sy_save")
    /\ UNCHANGED <<session_meta, sync_token, rooms, rooms_lock, subs, next_obj, calls, commit>>
    /\ UNCHANGED <<batchVars, uiVars>>

\* get_or_create_room for the next room of the batch.
SyncCycle_Room(t) ==
    /\ pc[t] = "sy_rooms"
    /\ IF session_meta = NoMeta
       THEN /\ End(t, frame[t], "Panic", NoRoom)
            /\ sync_lock' = Released(t)
            /\ UNCHANGED <<rooms, subs, next_obj, commit, hist>>
       ELSE /\ CanWrite(t)
            /\ LET room_id == Head(frame[t].todo)
                   room_type == frame[t].changes.room_infos[room_id].state
                   r == OM_get_or_create(rooms, room_id, NewRoom(room_id, room_type, next_obj))
                   f == [frame[t] EXCEPT !.todo = Tail(@)]
               IN /\ rooms' = r.map
                  /\ Notify(r.diffs)
                  /\ next_obj' = IF r.diffs = <<>> THEN next_obj ELSE next_obj + 1
                  /\ commit' = [commit EXCEPT !.forgotten = @ \ {room_id}]
                  /\ hist' = IF r.diffs = <<>> THEN hist ELSE Wrote(hist, frame[t].cycle)
                  /\ IF f.todo = <<>>
                     THEN SyncCycle_Goto(t, f, "sy_rooms")
                     ELSE Goto(t, f, "sy_rooms") /\ sync_lock' = sync_lock
    /\ UNCHANGED <<inner, session_meta, sync_token, rooms_lock, calls>>
    /\ UNCHANGED <<batchVars, uiVars>>

\* *self.sync_token.write().await = Some(next_batch)
SyncCycle_Token(t) ==
    /\ pc[t] = "sy_token"
    /\ sync_token' = frame[t].changes.sync_token
    /\ hist' = Wrote(hist, frame[t].cycle)
    /\ SyncCycle_Goto(t, frame[t], "sy_token")
    /\ UNCHANGED <<inner, session_meta, rooms, rooms_lock, subs, next_obj, calls, commit>>
    /\ UNCHANGED <<batchVars, uiVars>>

\* ---------------------------------------------------- specification
Next ==
    \/ \E t \in Tasks : LoadRoomInfos_Get(t)
    \/ \E t \in Tasks : LoadRoomInfos_Save(t)
    \/ \E t \in Tasks : SetOrReloadSession_Lock(t)
    \/ \E t \in Tasks : SetOrReloadSession_Insert(t)
    \/ \E t \in Tasks : SetOrReloadSession_Unlock(t)
    \/ \E t \in Tasks : SetOrReloadSession_GetKv(t)
    \/ \E t \in Tasks : SetOrReloadSession_WriteToken(t)
    \/ \E t \in Tasks : SetOrReloadSession_SetMeta(t)
    \/ \E t \in Tasks : GetOrCreateRoom_Check(t)
    \/ \E t \in Tasks : GetOrCreateRoom_Do(t)
    \/ \E t \in Tasks : ForgetRoom_Remove(t)
    \/ \E t \in Tasks : ForgetRoom_Do(t)
    \/ \E t \in Tasks : RoomsStream_Lock(t)
    \/ \E t \in Tasks : RoomsStream_Values(t)
    \/ \E t \in Tasks : RoomsStream_Subscribe(t)
    \/ \E s \in 1..MaxSubs : Poll(s)

Spec == Init /\ [][Next]_vars

\* The store under the sync loop: the session start, sync cycles and reads.
SyncNext ==
    \/ \E t \in Tasks : LoadRoomInfos_Get(t)
    \/ \E t \in Tasks : LoadRoomInfos_Save(t)
    \/ \E t \in Tasks : SetOrReloadSession_Lock(t)
    \/ \E t \in Tasks : SetOrReloadSession_Insert(t)
    \/ \E t \in Tasks : SetOrReloadSession_Unlock(t)
    \/ \E t \in Tasks : SetOrReloadSession_GetKv(t)
    \/ \E t \in Tasks : SetOrReloadSession_WriteToken(t)
    \/ \E t \in Tasks : SetOrReloadSession_SetMeta(t)
    \/ \E t \in Tasks : SyncCycle_Begin(t)
    \/ \E t \in Tasks : SyncCycle_Cancel(t)
    \/ \E t \in Tasks : SyncCycle_Lock(t)
    \/ \E t \in Tasks : SyncCycle_Save(t)
    \/ \E t \in Tasks : SyncCycle_Room(t)
    \/ \E t \in Tasks : SyncCycle_Token(t)
    \/ \E t \in Tasks : Rooms(t)
    \/ \E t \in Tasks : RoomsFiltered(t)
    \/ \E t \in Tasks : Room(t)
    \/ \E t \in Tasks : RoomsStream_Lock(t)
    \/ \E t \in Tasks : RoomsStream_Values(t)
    \/ \E t \in Tasks : RoomsStream_Subscribe(t)

\* The durable store has a record of room 1 when the store is made; room 2
\* is first heard of in a sync response.
SyncInit == Init /\ DOMAIN inner.room_infos = {1}

SyncSpec == SyncInit /\ [][SyncNext]_vars

\* The store at its start: the session start and the reads of the table.
ReadNext ==
    \/ \E t \in Tasks : LoadRoomInfos_Get(t)
    \/ \E t \in Tasks : LoadRoomInfos_Save(t)
    \/ \E t \in Tasks : SetOrReloadSession_Lock(t)
    \/ \E t \in Tasks : SetOrReloadSession_Insert(t)
    \/ \E t \in Tasks : SetOrReloadSession_Unlock(t)
    \/ \E t \in Tasks : SetOrReloadSession_GetKv(t)
    \/ \E t \in Tasks : SetOrReloadSession_WriteToken(t)
    \/ \E t \in Tasks : SetOrReloadSession_SetMeta(t)
    \/ \E t \in Tasks : Rooms(t)
    \/ \E t \in Tasks : RoomsFiltered(t)
    \/ \E t \in Tasks : RoomsStream_Lock(t)
    \/ \E t \in Tasks : RoomsStream_Values(t)
    \/ \E t \in Tasks : RoomsStream_Subscribe(t)

ReadSpec == Init /\ [][ReadNext]_vars

\* ------------------------------------------------- a change batch
\* A batch is built by the accumulation operations of StateChanges and then
\* handed to save_changes; the next batch starts empty.
MaxAdds == 3

\* The inputs of the accumulation operations. An event added under a key
\* carries its version: one more than the version of the event the batch
\* holds there, so that it differs from the event it replaces.
RoomInfos == {[room_id |-> r, state |-> st, migrated |-> TRUE] : r \in RoomIds, st \in RoomStates}
EventIds == {"$1", "$2"}
StateEvents ==
    {[room_id |-> 1, event_type |-> "m.room.name", state_key |-> ""],
     [room_id |-> 1, event_type |-> "m.room.member", state_key |-> "@a"],
     [room_id |-> 2, event_type |-> "m.room.member", state_key |-> "@a"]}
RoomAccountData ==
    {[room_id |-> 1, event_type |-> "m.tag"],
     [room_id |-> 2, event_type |-> "m.tag"]}
StrippedMembers ==
    {[room_id |-> 1, user_id |-> "@a"],
     [room_id |-> 1, user_id |-> "@b"]}
UserIds == {"@a", "@b"}

\* The entries of a map and of maps of maps, as the set of <<keys, value>>.
Entries1(m) == {<<<<k>>, m[k]>> : k \in DOMAIN m}

Entries2(m) ==
    UNION {{<<<<k>> \o e[1], e[2]>> : e \in Entries1(m[k])} : k \in DOMAIN m}

Entries3(m) ==
    UNION {{<<<<k>> \o e[1], e[2]>> : e \in Entries2(m[k])} : k \in DOMAIN m}

\* The version the next event under the keys gets.
Version(entries, keys) ==
    IF \E e \in entries : e[1] = keys
    THEN (CHOOSE e \in entries : e[1] = keys)[2] + 1
    ELSE 1

VersionOfEvent(entries, keys) ==
    IF \E e \in entries : e[1] = keys
    THEN (CHOOSE e \in entries : e[1] = keys)[2].version + 1
    ELSE 1

BatchInit == Init /\ inner = Store_new

Add(c) ==
    /\ adds < MaxAdds
    /\ adds' = adds + 1
    /\ changes' = c
    /\ UNCHANGED <<inner, saved>>
    /\ UNCHANGED <<session_meta, sync_token, rooms, rooms_lock, subs, pc, frame, last,
                   next_obj, calls, commit, gateVars, uiVars>>

AddPresenceEvent ==
    \E sender \in UserIds :
        Add(add_presence_event(changes, [sender |-> sender],
                               Version(Entries1(changes.presence), <<sender>>)))

AddRoom == \E room \in RoomInfos : Add(add_room(changes, room))

AddRoomAccountData ==
    \E e \in RoomAccountData :
        Add(add_room_account_data(changes, e.room_id, [event_type |-> e.event_type],
                                  Version(Entries2(changes.room_account_data),
                                          <<e.room_id, e.event_type>>)))

AddStrippedMember ==
    \E e \in StrippedMembers :
        Add(add_stripped_member(changes, e.room_id, e.user_id,
                                Version(Entries3(changes.stripped_state),
                                        <<e.room_id, "m.room.member", e.user_id>>)))

AddStateEvent ==
    \E e \in StateEvents, event_id \in EventIds :
        Add(add_state_event(changes, e.room_id,
                            [event_type |-> e.event_type, state_key |-> e.state_key],
                            [event_id |-> event_id, redacted |-> FALSE,
                             version |-> VersionOfEvent(Entries3(changes.state),
                                            <<e.room_id, e.event_type, e.state_key>>)]))

AddRedaction ==
    \E room_id \in RoomIds, redacted_event_id \in EventIds :
        Add(add_redaction(changes, room_id, redacted_event_id,
                          Version(Entries2(changes.redactions), <<room_id, redacted_event_id>>)))

AddReceipts ==
    \E room_id \in RoomIds :
        Add(add_receipts(changes, room_id, Version(Entries1(changes.receipts), <<room_id>>)))

\* Two batches merged into one: the entries of the later batch, and those
\* of the earlier one at the keys the later batch has no entry for.
MergeChanges(b1, b2) ==
    [sync_token |-> IF b2.sync_token # NoToken THEN b2.sync_token ELSE b1.sync_token,
     account_data |-> Overlay1(b1.account_data, b2.account_data),
     presence |-> Overlay1(b1.presence, b2.presence),
     profiles |-> Overlay2(b1.profiles, b2.profiles),
     profiles_to_delete |-> Overlay1(b1.profiles_to_delete, b2.profiles_to_delete),
     state |-> Overlay3(b1.state, b2.state),
     room_account_data |-> Overlay2(b1.room_account_data, b2.room_account_data),
     room_infos |-> Overlay1(b1.room_infos, b2.room_infos),
     receipts |-> Overlay1(b1.receipts, b2.receipts),
     redactions |-> Overlay2(b1.redactions, b2.redactions),
     stripped_state |-> Overlay3(b1.stripped_state, b2.stripped_state),
     ambiguity_maps |-> Overlay2(b1.ambiguity_maps, b2.ambiguity_maps)]

\* The ids of the state events a map of state events holds for a room.
EventIdsOf(state, room_id) ==
    {e[2].event_id : e \in {x \in Entries3(state) : x[1][1] = room_id}}

\* The redactions of a batch whose target neither the store nor the batch holds.
UnknownTargets(store, c) ==
    {e[1] : e \in {x \in Entries2(c.redactions) :
                     x[1][2] \notin EventIdsOf(store.state, x[1][1])
                                    \cup EventIdsOf(c.state, x[1][1])}}

\* The batch is handed to save_changes and consumed.
SaveBatch ==
    /\ changes # StateChanges_default
    /\ inner' = SaveChanges(inner, changes)
    /\ saved' = [merged |-> MergeChanges(saved.merged, changes),
                 unknown |-> saved.unknown \cup UnknownTargets(inner, changes),
                 overrode |-> saved.overrode \cup
                     {r \in DOMAIN changes.room_infos \cap DOMAIN inner.room_infos :
                        inner.room_infos[r] # Record(changes.room_infos[r])}]
    /\ changes' = StateChanges_default
    /\ UNCHANGED adds
    /\ UNCHANGED <<session_meta, sync_token, rooms, rooms_lock, subs, pc, frame, last,
                   next_obj, calls, commit, gateVars, uiVars>>

BatchNext ==
    \/ AddPresenceEvent
    \/ AddRoom
    \/ AddRoomAccountData
    \/ AddStrippedMember
    \/ AddStateEvent
    \/ AddRedaction
    \/ AddReceipts
    \/ SaveBatch

BatchSpec == BatchInit /\ [][BatchNext]_vars

\* A batch is made for the response of a sync: StateChanges::new(sync_token).
NewChanges ==
    /\ changes = StateChanges_default
    /\ \E token \in SyncTokens : changes' = StateChanges_new(token)
    /\ UNCHANGED <<inner, saved, adds>>
    /\ UNCHANGED <<session_meta, sync_token, rooms, rooms_lock, subs, pc, frame, last,
                   next_obj, calls, commit, gateVars, uiVars>>

\* A batch under construction, made with or without a sync token.
FrameNext ==
    \/ NewChanges
    \/ AddPresenceEvent
    \/ AddRoom
    \/ AddRoomAccountData
    \/ AddStrippedMember
    \/ AddStateEvent
    \/ AddRedaction
    \/ AddReceipts

FrameSpec == BatchInit /\ [][FrameNext]_vars

\* ------------------------------------------- the room list's sorters
\* (room_list_service/sorters/tag.rs, sorters/unread.rs, sc_room_list.rs)
\* std::cmp::Ordering, and Ord::cmp on integers.
Orderings == {"Less", "Equal", "Greater"}

cmp(a, b) == IF a < b THEN "Less" ELSE IF a = b THEN "Equal" ELSE "Greater"

\* Option<u64>::unwrap_or_default
unwrap_or_default(count) == IF count = NoCount THEN 0 ELSE count

ScSortOrders ==
    [by_unread : BOOLEAN, pin_favorites : BOOLEAN, bury_low_priority : BOOLEAN,
     client_generated_unread : BOOLEAN, with_silent_unread : BOOLEAN]

\* (mutant) a favourite room that is low-priority too is buried.
room_to_tag_weight_bury_first(room, pin_favorites, bury_low_priority) ==
    IF room.state = "Invited" THEN 0
    ELSE IF bury_low_priority /\ room.is_low_priority THEN 3
    ELSE IF pin_favorites /\ room.is_favourite THEN 1
    ELSE 2

room_to_tag_weight(room, pin_favorites, bury_low_priority) ==
    IF room.state = "Invited" THEN 0
    ELSE IF pin_favorites /\ room.is_favourite THEN 1
    ELSE IF bury_low_priority /\ room.is_low_priority THEN 3
    ELSE 2

\* (mutant) two arguments of one room id are compared by their keys.
TagMatcher_matches_by_key(left, right, pin_favorites, bury_low_priority) ==
    cmp(room_to_tag_weight(left, pin_favorites, bury_low_priority),
        room_to_tag_weight(right, pin_favorites, bury_low_priority))

\* (mutant) rooms of one weight are told apart by their ids.
TagMatcher_matches_tie_by_id(left, right, pin_favorites, bury_low_priority) ==
    IF left.room_id = right.room_id THEN "Greater"
    ELSE cmp(room_to_tag_weight(left, pin_favorites, bury_low_priority) * 4 + left.room_id,
             room_to_tag_weight(right, pin_favorites, bury_low_priority) * 4 + right.room_id)

\* TagMatcher::matches with the order_key of new_sorter.
TagMatcher_matches(left, right, pin_favorites, bury_low_priority) ==
    IF left.room_id = right.room_id THEN "Greater"
    ELSE cmp(room_to_tag_weight(left, pin_favorites, bury_low_priority),
             room_to_tag_weight(right, pin_favorites, bury_low_priority))

\* (mutant) a generic unread count ranks with the notifications.
counts_to_unread_weight_flat(marked_unread, highlight_count, notification_count, unread_count) ==
    IF marked_unread \/ notification_count > 0 \/ highlight_count > 0 \/ unread_count > 0 THEN 0
    ELSE 2

counts_to_unread_weight(marked_unread, highlight_count, notification_count, unread_count) ==
    IF marked_unread \/ notification_count > 0 \/ highlight_count > 0 THEN 0
    ELSE IF unread_count > 0 THEN 1
    ELSE 2

\* (mutant) the generic unread count is read whatever with_silent_unread is.
room_to_unread_weight_loud(room, client_generated_counts, with_silent_unread) ==
    IF client_generated_counts
    THEN counts_to_unread_weight(room.is_marked_unread, room.num_unread_mentions,
                                 room.num_unread_notifications, room.num_unread_messages)
    ELSE counts_to_unread_weight(room.is_marked_unread, room.num_unread_mentions,
                                 room.notification_count, unwrap_or_default(room.unread_count))

\* (mutant) with the server's counts the client's mention count is not read.
room_to_unread_weight_server_only(room, client_generated_counts, with_silent_unread) ==
    IF client_generated_counts
    THEN counts_to_unread_weight(room.is_marked_unread, room.num_unread_mentions,
                                 room.num_unread_notifications,
                                 IF with_silent_unread THEN room.num_unread_messages ELSE 0)
    ELSE counts_to_unread_weight(room.is_marked_unread, 0,
                                 room.notification_count,
                                 IF with_silent_unread
                                 THEN unwrap_or_default(room.unread_count) ELSE 0)

room_to_unread_weight(room, client_generated_counts, with_silent_unread) ==
    IF client_generated_counts
    THEN counts_to_unread_weight(room.is_marked_unread, room.num_unread_mentions,
                                 room.num_unread_notifications,
                                 IF with_silent_unread THEN room.num_unread_messages ELSE 0)
    ELSE counts_to_unread_weight(room.is_marked_unread, room.num_unread_mentions,
                                 room.notification_count,
                                 IF with_silent_unread
                                 THEN unwrap_or_default(room.unread_count) ELSE 0)

\* UnreadMatcher::matches with the order_key of new_sorter.
UnreadMatcher_matches(left, right, client_generated_counts, with_silent_unread) ==
    IF left.room_id = right.room_id THEN "Greater"
    ELSE cmp(room_to_unread_weight(left, client_generated_counts, with_silent_unread),
             room_to_unread_weight(right, client_generated_counts, with_silent_unread))

\* A sorter is the closure a new_sorter function returns: its kind and what
\* it captured.
new_sorter_tag(pin_favorites, bury_low_priority) ==
    [kind |-> "tag", a |-> pin_favorites, b |-> bury_low_priority]

new_sorter_unread(client_generated_counts, with_silent_unread) ==
    [kind |-> "unread", a |-> client_generated_counts, b |-> with_silent_unread]

new_sorter_latest_event == [kind |-> "latest_event", a |-> FALSE, b |-> FALSE]

new_sorter_recency == [kind |-> "recency", a |-> FALSE, b |-> FALSE]

new_sorter_name == [kind |-> "name", a |-> FALSE, b |-> FALSE]

\* The rooms with a local latest event first.
LatestEventMatcher_matches(left, right) ==
    IF left.latest_event_is_local = right.latest_event_is_local THEN "Equal"
    ELSE IF left.latest_event_is_local THEN "Less" ELSE "Greater"

\* The most recently active room first; one room against itself is Greater.
RecencyMatcher_matches(left, right) ==
    IF left.room_id = right.room_id THEN "Greater" ELSE cmp(right.recency, left.recency)

Names == <<"alpha", "bravo">>

Rank(name) == CHOOSE i \in DOMAIN Names : Names[i] = name

NameMatcher_matches(left, right) == cmp(Rank(left.name), Rank(right.name))

\* The call of a sorter.
Sorter_call(sorter, left, right) ==
    CASE sorter.kind = "tag" -> TagMatcher_matches(left, right, sorter.a, sorter.b)
      [] sorter.kind = "unread" -> UnreadMatcher_matches(left, right, sorter.a, sorter.b)
      [] sorter.kind = "latest_event" -> LatestEventMatcher_matches(left, right)
      [] sorter.kind = "recency" -> RecencyMatcher_matches(left, right)
      [] sorter.kind = "name" -> NameMatcher_matches(left, right)

\* (mutant) the tag sorter is in the chain only when it has something to pin or bury.
get_sort_by_vec_tag_on_demand(sort_order, enable_latest_event_sorter) ==
    (IF sort_order.pin_favorites \/ sort_order.bury_low_priority
     THEN <<new_sorter_tag(sort_order.pin_favorites, sort_order.bury_low_priority)>>
     ELSE <<>>)
    \o (IF sort_order.by_unread
        THEN <<new_sorter_unread(sort_order.client_generated_unread,
                                 sort_order.with_silent_unread)>>
        ELSE <<>>)
    \o (IF enable_latest_event_sorter THEN <<new_sorter_latest_event>> ELSE <<>>)
    \o <<new_sorter_recency, new_sorter_name>>

\* (mutant) the unread sorter comes before the tag sorter.
get_sort_by_vec_unread_first(sort_order, enable_latest_event_sorter) ==
    (IF sort_order.by_unread
     THEN <<new_sorter_unread(sort_order.client_generated_unread,
                              sort_order.with_silent_unread)>>
     ELSE <<>>)
    \o <<new_sorter_tag(sort_order.pin_favorites, sort_order.bury_low_priority)>>
    \o (IF enable_latest_event_sorter THEN <<new_sorter_latest_event>> ELSE <<>>)
    \o <<new_sorter_recency, new_sorter_name>>

get_sort_by_vec(sort_order, enable_latest_event_sorter) ==
    <<new_sorter_tag(sort_order.pin_favorites, sort_order.bury_low_priority)>>
    \o (IF sort_order.by_unread
        THEN <<new_sorter_unread(sort_order.client_generated_unread,
                                 sort_order.with_silent_unread)>>
        ELSE <<>>)
    \o (IF enable_latest_event_sorter THEN <<new_sorter_latest_event>> ELSE <<>>)
    \o <<new_sorter_recency, new_sorter_name>>

\* (mutant) the last sorter of the chain that is not Equal decides.
RECURSIVE new_sorter_lexicographic_last(_, _, _)
new_sorter_lexicographic_last(sorters, left, right) ==
    IF sorters = <<>> THEN "Equal"
    ELSE LET rest == new_sorter_lexicographic_last(Tail(sorters), left, right)
         IN IF rest # "Equal" THEN rest ELSE Sorter_call(Head(sorters), left, right)

\* new_sorter_lexicographic(sorters): the sorters are called in order until
\* one does not return Equal.
RECURSIVE new_sorter_lexicographic(_, _, _)
new_sorter_lexicographic(sorters, left, right) ==
    IF sorters = <<>> THEN "Equal"
    ELSE LET ordering == Sorter_call(Head(sorters), left, right)
         IN IF ordering # "Equal" THEN ordering
            ELSE new_sorter_lexicographic(Tail(sorters), left, right)

\* The rooms a sorter is called with: for the tag sorter every membership
\* and tag, for the unread sorter every flag and count, for a chain of
\* sorters a room of every tag tier and unread tier, recency and name.
Counts == {0, 1}

TagRooms ==
    {[Room0 EXCEPT !.state = st, !.is_favourite = fav, !.is_low_priority = low] :
        st \in RoomStates, fav \in BOOLEAN, low \in BOOLEAN}

UnreadRooms ==
    {[Room0 EXCEPT !.is_marked_unread = marked, !.num_unread_mentions = mentions,
                   !.num_unread_notifications = notifications,
                   !.num_unread_messages = messages,
                   !.notification_count = notification_count,
                   !.unread_count = unread_count] :
        marked \in BOOLEAN, mentions \in Counts, notifications \in Counts,
        messages \in Counts, notification_count \in Counts,
        unread_count \in Counts \cup {NoCount}}

Tagged == {[state |-> "Invited", is_favourite |-> FALSE],
           [state |-> "Joined", is_favourite |-> TRUE],
           [state |-> "Joined", is_favourite |-> FALSE]}

Unreads == {[messages |-> 0, notifications |-> 0],
            [messages |-> 3, notifications |-> 0],
            [messages |-> 0, notifications |-> 1]}

ChainRooms ==
    {[Room0 EXCEPT !.state = tag.state, !.is_favourite = tag.is_favourite,
                   !.num_unread_messages = unread.messages,
                   !.unread_count = unread.messages,
                   !.num_unread_notifications = unread.notifications,
                   !.notification_count = unread.notifications,
                   !.recency = recency, !.name = name,
                   !.latest_event_is_local = (recency = 2 /\ name = "bravo" /\ local)] :
        tag \in Tagged, unread \in Unreads, recency \in {1, 2},
        name \in {"alpha", "bravo"}, local \in BOOLEAN}

\* tag::new_sorter(pin_favorites, bury_low_priority)
NewSorterTag ==
    /\ sort.op = "none"
    /\ \E pin_favorites \in BOOLEAN, bury_low_priority \in BOOLEAN :
         sort' = [Sort0 EXCEPT !.op = "tag",
                               !.sort_order = [ScSortOrder_default EXCEPT
                                                 !.pin_favorites = pin_favorites,
                                                 !.bury_low_priority = bury_low_priority],
                               !.sorters = <<new_sorter_tag(pin_favorites, bury_low_priority)>>]
    /\ UNCHANGED <<inner, session_meta, sync_token, rooms, rooms_lock, subs, pc, frame, last,
                   next_obj, calls, commit, gateVars, batchVars, view, ntf, tl>>

\* unread::new_sorter(client_generated_counts, with_silent_unread)
NewSorterUnread ==
    /\ sort.op = "none"
    /\ \E client_generated_counts \in BOOLEAN, with_silent_unread \in BOOLEAN :
         sort' = [Sort0 EXCEPT !.op = "unread",
                               !.sort_order = [ScSortOrder_default EXCEPT
                                                 !.by_unread = TRUE,
                                                 !.client_generated_unread = client_generated_counts,
                                                 !.with_silent_unread = with_silent_unread],
                               !.sorters = <<new_sorter_unread(client_generated_counts,
                                                               with_silent_unread)>>]
    /\ UNCHANGED <<inner, session_meta, sync_token, rooms, rooms_lock, subs, pc, frame, last,
                   next_obj, calls, commit, gateVars, batchVars, view, ntf, tl>>

\* get_sc_sort_box(setting, enable_latest_event_sorter)
GetScSortBox ==
    /\ sort.op = "none"
    /\ \E setting \in ScSortOrders, enable_latest_event_sorter \in BOOLEAN :
         sort' = [Sort0 EXCEPT !.op = "get_sc_sort_box",
                               !.sort_order = setting,
                               !.enable_latest_event_sorter = enable_latest_event_sorter,
                               !.sorters = get_sort_by_vec(setting, enable_latest_event_sorter)]
    /\ UNCHANGED <<inner, session_meta, sync_token, rooms, rooms_lock, subs, pc, frame, last,
                   next_obj, calls, commit, gateVars, batchVars, view, ntf, tl>>

\* impl From<ScSortOrder> for BoxedSorterFn
FromScSortOrder ==
    /\ sort.op = "none"
    /\ \E value \in ScSortOrders :
         sort' = [Sort0 EXCEPT !.op = "from",
                               !.sort_order = value,
                               !.sorters = get_sort_by_vec(value, FALSE)]
    /\ UNCHANGED <<inner, session_meta, sync_token, rooms, rooms_lock, subs, pc, frame, last,
                   next_obj, calls, commit, gateVars, batchVars, view, ntf, tl>>

\* The rooms the sorter that was built is called with.
SortRooms(op) ==
    CASE op = "tag" -> TagRooms
      [] op = "unread" -> UnreadRooms
      [] OTHER -> ChainRooms

\* The sorter is called with two rooms; a sorter alone is called with two
\* arguments of one room as well.
SorterCall ==
    /\ sort.op # "none"
    /\ ~sort.called
    /\ \E left \in SortRooms(sort.op), room \in SortRooms(sort.op),
          room_id \in IF sort.op \in {"tag", "unread"} THEN {1, 2} ELSE {2} :
         LET right == [room EXCEPT !.room_id = room_id]
         IN sort' = [sort EXCEPT !.called = TRUE, !.left = left, !.right = right,
                                 !.ordering = new_sorter_lexicographic(sort.sorters, left, right)]
    /\ UNCHANGED <<inner, session_meta, sync_token, rooms, rooms_lock, subs, pc, frame, last,
                   next_obj, calls, commit, gateVars, batchVars, view, ntf, tl>>

\* The sorter is dropped.
SorterDrop ==
    /\ sort.op # "none"
    /\ sort' = Sort0
    /\ UNCHANGED <<inner, session_meta, sync_token, rooms, rooms_lock, subs, pc, frame, last,
                   next_obj, calls, commit, gateVars, batchVars, view, ntf, tl>>

SortNext ==
    \/ NewSorterTag
    \/ NewSorterUnread
    \/ GetScSortBox
    \/ FromScSortOrder
    \/ SorterCall
    \/ SorterDrop

SortInit == Init /\ inner = Store_new

SortSpec == SortInit /\ [][SortNext]_vars

\* ---------------------------------------------- the room list's projection
\* The pipeline reads the room table's diffs, keeps the rooms its filter
\* accepts in the order of its sorter, and emits diffs of its own.
InsertDiff(i, v) == [kind |-> "Insert", index |-> i, value |-> v]

InsertAt(s, i, v) == SubSeq(s, 1, i - 1) \o <<v>> \o SubSeq(s, i, Len(s))

\* A subscriber of the projection applies a diff to its copy of the list.
ApplyVectorDiff(seq, d) ==
    IF d.kind = "Insert"
    THEN IF d.index \in 1..(Len(seq) + 1) THEN InsertAt(seq, d.index, d.value) ELSE seq
    ELSE ApplyDiff(seq, d)

RECURSIVE ReplayVector(_, _)
ReplayVector(seq, diffs) ==
    IF diffs = <<>> THEN seq
    ELSE ReplayVector(ApplyVectorDiff(seq, Head(diffs)), Tail(diffs))

\* sc_rooms::new_filter(rooms): the room's id is one of the ids included.
ScRoomsMatcher_matches(included, room) == \E room_id \in included : room_id = room.room_id

\* The filter that keeps the favourite rooms.
FavouriteMatcher_matches(room) == room.is_favourite

\* Filters are chained by the caller: a room passes when every one accepts it.
Filter_call(filter, room) ==
    /\ ScRoomsMatcher_matches(filter.rooms, room)
    /\ filter.favourite => FavouriteMatcher_matches(room)

\* The index of a room in a list, 0 when it is not there.
PositionOf(seq, room_id) ==
    IF \E i \in DOMAIN seq : seq[i].room_id = room_id
    THEN CHOOSE i \in DOMAIN seq : seq[i].room_id = room_id
    ELSE 0

\* (mutant) a room enters the list at its end.
SortedPosition_Last(sorters, seq, room) == Len(seq) + 1

\* The sorted position of a room that enters a list: before the first room
\* it is less than.
SortedPosition(sorters, seq, room) ==
    LET later == {i \in DOMAIN seq :
                    new_sorter_lexicographic(sorters, room, seq[i]) = "Less"}
    IN IF later = {} THEN Len(seq) + 1
       ELSE CHOOSE i \in later : \A j \in later : i <= j

\* (mutant) an updated room is always taken out and inserted again.
InPlace_Never(sorters, seq, p, room) == FALSE

\* An updated room keeps its place when it is still in order with both of
\* its neighbours.
InPlace(sorters, seq, p, room) ==
    /\ p = 1 \/ new_sorter_lexicographic(sorters, seq[p - 1], room) # "Greater"
    /\ p = Len(seq) \/ new_sorter_lexicographic(sorters, room, seq[p + 1]) # "Greater"

\* What the pipeline does with one diff of the room table: the projection
\* after it and the diffs emitted.
Pipeline_insert(v, room) ==
    IF Filter_call(v.filter, room)
    THEN LET p == SortedPosition(v.sorters, v.projection, room)
         IN [projection |-> InsertAt(v.projection, p, room), out |-> <<InsertDiff(p, room)>>]
    ELSE [projection |-> v.projection, out |-> <<>>]

Pipeline_remove(v, room_id) ==
    LET p == PositionOf(v.projection, room_id)
    IN IF p = 0 THEN [projection |-> v.projection, out |-> <<>>]
       ELSE [projection |-> RemoveAt(v.projection, p), out |-> <<RemoveDiff(p)>>]

Pipeline_update(v, room) ==
    LET p == PositionOf(v.projection, room.room_id)
    IN IF p = 0 THEN Pipeline_insert(v, room)
       ELSE IF ~Filter_call(v.filter, room) THEN Pipeline_remove(v, room.room_id)
       ELSE IF InPlace(v.sorters, v.projection, p, room)
       THEN [projection |-> [v.projection EXCEPT ![p] = room], out |-> <<SetAt(p, room)>>]
       ELSE LET rest == RemoveAt(v.projection, p)
                q == SortedPosition(v.sorters, rest, room)
            IN [projection |-> InsertAt(rest, q, room),
                out |-> <<RemoveDiff(p), InsertDiff(q, room)>>]

\* The projection of a table the pipeline subscribes to.
RECURSIVE Pipeline_initial(_, _)
Pipeline_initial(v, table) ==
    IF table = <<>> THEN v.projection
    ELSE Pipeline_initial([v EXCEPT !.projection = Pipeline_insert(v, Head(table)).projection],
                          Tail(table))

ListRoomIds == {1, 2, 3}

ListKinds == {"read", "unread", "favourite", "invited"}

ListRoom(room_id, kind) ==
    [Room0 EXCEPT !.room_id = room_id,
                  !.state = IF kind = "invited" THEN "Invited" ELSE "Joined",
                  !.is_favourite = (kind = "favourite"),
                  !.num_unread_messages = IF kind = "unread" THEN 3 ELSE 0,
                  !.unread_count = IF kind = "unread" THEN 3 ELSE 0]

ListSortOrders ==
    {[ScSortOrder_default EXCEPT !.by_unread = by_unread, !.pin_favorites = pin_favorites,
                                 !.with_silent_unread = TRUE] :
        by_unread \in BOOLEAN, pin_favorites \in BOOLEAN}

ListFilters ==
    {[rooms |-> ListRoomIds, favourite |-> FALSE],
     [rooms |-> {1, 2}, favourite |-> FALSE],
     [rooms |-> ListRoomIds, favourite |-> TRUE]}

\* What the pipeline does with a diff of the table, once it is subscribed.
Pipeline_handle(step, input) ==
    IF view.open
    THEN view' = [view EXCEPT !.table = ApplyDiff(view.table, input),
                              !.input = input,
                              !.projection = step.projection,
                              !.out = step.out,
                              !.replayed = ReplayVector(view.replayed, step.out)]
    ELSE view' = [view EXCEPT !.table = ApplyDiff(view.table, input)]

\* The pipeline is built from a sort order and a filter and subscribes to
\* the table: its projection starts as the table's rooms, filtered and sorted.
ListOpen ==
    /\ ~view.open
    /\ \E value \in ListSortOrders, filter \in ListFilters :
         LET v == [view EXCEPT !.open = TRUE, !.sort_order = value,
                               !.sorters = get_sort_by_vec(value, FALSE),
                               !.filter = filter]
             initial == Pipeline_initial(v, view.table)
         IN view' = [v EXCEPT !.projection = initial, !.replayed = initial]
    /\ UNCHANGED <<inner, session_meta, sync_token, rooms, rooms_lock, subs, pc, frame, last,
                   next_obj, calls, commit, gateVars, batchVars, sort, ntf, tl>>

\* A room enters the table.
TableInsert ==
    /\ \E room_id \in ListRoomIds \ SeqIds(view.table), kind \in ListKinds :
         LET room == ListRoom(room_id, kind)
         IN Pipeline_handle(Pipeline_insert(view, room), PushBack(room))
    /\ UNCHANGED <<inner, session_meta, sync_token, rooms, rooms_lock, subs, pc, frame, last,
                   next_obj, calls, commit, gateVars, batchVars, sort, ntf, tl>>

\* A room leaves the table.
TableRemove ==
    /\ \E index \in DOMAIN view.table :
         Pipeline_handle(Pipeline_remove(view, view.table[index].room_id), RemoveDiff(index))
    /\ UNCHANGED <<inner, session_meta, sync_token, rooms, rooms_lock, subs, pc, frame, last,
                   next_obj, calls, commit, gateVars, batchVars, sort, ntf, tl>>

\* A room of the table is updated, to the value it has or to another one.
TableUpdate ==
    /\ \E index \in DOMAIN view.table, kind \in ListKinds :
         LET room == ListRoom(view.table[index].room_id, kind)
         IN Pipeline_handle(Pipeline_update(view, room), SetAt(index, room))
    /\ UNCHANGED <<inner, session_meta, sync_token, rooms, rooms_lock, subs, pc, frame, last,
                   next_obj, calls, commit, gateVars, batchVars, sort, ntf, tl>>

ListNext ==
    \/ ListOpen
    \/ TableInsert
    \/ TableRemove
    \/ TableUpdate

ListInit == Init /\ inner = Store_new

ListSpec == ListInit /\ [][ListNext]_vars

\* ------------------------------------------------- the notification client
\* Identifiers cross the boundary as strings, here sequences of characters.
\* The position of the first c in s, 0 when there is none.
IndexOf(s, c) ==
    IF \E i \in DOMAIN s : s[i] = c
    THEN CHOOSE i \in DOMAIN s : s[i] = c /\ \A j \in 1..(i - 1) : s[j] # c
    ELSE 0

IdParseError == [kind |-> "Err", error |-> "IdParseError"]

\* RoomId::parse: the sigil, a localpart, a colon and a server name.
RoomId_parse(s) ==
    IF /\ Len(s) >= 1 /\ s[1] = "!"
       /\ IndexOf(s, ":") > 2 /\ IndexOf(s, ":") < Len(s)
    THEN [kind |-> "Ok", id |-> [sigil |-> "!", localpart |-> SubSeq(s, 2, IndexOf(s, ":") - 1),
                                 server_name |-> SubSeq(s, IndexOf(s, ":") + 1, Len(s))]]
    ELSE IdParseError

\* EventId::parse: the sigil and what follows it.
EventId_parse(s) ==
    IF Len(s) >= 2 /\ s[1] = "$"
    THEN [kind |-> "Ok", id |-> [sigil |-> "$", localpart |-> SubSeq(s, 2, Len(s))]]
    ELSE IdParseError

\* MatrixNotificationClient::get_room: a lookup in the client's rooms.
Inner_get_room(client, room_id) ==
    [client |-> [client EXCEPT !.queried = @ \cup {<<"get_room", room_id>>}],
     room |-> IF room_id \in client.rooms THEN [kind |-> "Some", room_id |-> room_id]
              ELSE [kind |-> "None"]]

\* MatrixNotificationClient::get_notification: the client fetches the event,
\* which may fail, find nothing, or find it and learn the room on the way.
Inner_get_notification(client, room_id, event_id, outcome) ==
    LET asked == [client EXCEPT !.queried = @ \cup {<<"get_notification", room_id, event_id>>}]
    IN CASE outcome = "Err" -> [client |-> asked, item |-> [kind |-> "Err", error |-> "Client"]]
         [] outcome = "None" -> [client |-> asked, item |-> [kind |-> "None"]]
         [] OTHER -> [client |-> [asked EXCEPT !.rooms = @ \cup {room_id}],
                      item |-> [kind |-> "Some", room_id |-> room_id, event_id |-> event_id]]

RoomIdStrings ==
    {<<"!", "a", ":", "h">>, <<"!", "b", ":", "h">>, <<"a", ":", "h">>, <<"!", "a">>, <<>>}

EventIdStrings == {<<"$", "e">>, <<"$", "f">>, <<"e">>, <<"!", "a", ":", "h">>}

\* (mutant) the client is asked before the identifier is looked at.
NotificationClient_get_room_unparsed ==
    /\ \E room_id \in RoomIdStrings :
         LET parsed == RoomId_parse(room_id)
             sdk_room == Inner_get_room(ntf.client, parsed)
         IN ntf' = [ntf EXCEPT !.op = "get_room", !.room_id = room_id, !.event_id = NoId,
                               !.client = sdk_room.client,
                               !.result = IF parsed.kind = "Err" THEN parsed
                                          ELSE [kind |-> "Ok", value |-> sdk_room.room]]
    /\ UNCHANGED <<inner, session_meta, sync_token, rooms, rooms_lock, subs, pc, frame, last,
                   next_obj, calls, commit, gateVars, batchVars, sort, view, tl>>

\* NotificationClient::get_room(room_id)
NotificationClient_get_room ==
    /\ \E room_id \in RoomIdStrings :
         LET parsed == RoomId_parse(room_id)
         IN IF parsed.kind = "Err"
            THEN ntf' = [ntf EXCEPT !.op = "get_room", !.room_id = room_id, !.event_id = NoId,
                                    !.result = parsed]
            ELSE LET sdk_room == Inner_get_room(ntf.client, parsed.id)
                 IN ntf' = [ntf EXCEPT !.op = "get_room", !.room_id = room_id,
                                       !.event_id = NoId,
                                       !.client = sdk_room.client,
                                       !.result = [kind |-> "Ok", value |-> sdk_room.room]]
    /\ UNCHANGED <<inner, session_meta, sync_token, rooms, rooms_lock, subs, pc, frame, last,
                   next_obj, calls, commit, gateVars, batchVars, sort, view, tl>>

\* NotificationClient::get_notification(room_id, event_id)
NotificationClient_get_notification ==
    /\ \E room_id \in RoomIdStrings, event_id \in EventIdStrings,
          outcome \in {"Some", "None", "Err"} :
         LET parsed_room == RoomId_parse(room_id)
             parsed_event == EventId_parse(event_id)
             called == [ntf EXCEPT !.op = "get_notification", !.room_id = room_id,
                                   !.event_id = event_id]
         IN IF parsed_room.kind = "Err" THEN ntf' = [called EXCEPT !.result = parsed_room]
            ELSE IF parsed_event.kind = "Err" THEN ntf' = [called EXCEPT !.result = parsed_event]
            ELSE LET got == Inner_get_notification(ntf.client, parsed_room.id,
                                                   parsed_event.id, outcome)
                 IN ntf' = [called EXCEPT !.client = got.client,
                                          !.result = IF got.item.kind = "Err" THEN got.item
                                                     ELSE [kind |-> "Ok", value |-> got.item]]
    /\ UNCHANGED <<inner, session_meta, sync_token, rooms, rooms_lock, subs, pc, frame, last,
                   next_obj, calls, commit, gateVars, batchVars, sort, view, tl>>

NtfNext ==
    \/ NotificationClient_get_room
    \/ NotificationClient_get_notification

NtfInit == Init /\ inner = Store_new

NtfSpec == NtfInit /\ [][NtfNext]_vars

\* ------------------------------------------------------ a room's timeline
\* The timeline of a room as its integration tests observe it: the items a
\* subscriber holds and the diffs of each update. Every event is of the same
\* day. Indices count from 1.
\* The events of the room: $a, $b and $c.
TimelineEventIds == {1, 2, 3}

\* The longest timeline chunk of a sync response.
MaxBatch == 3

EventItem(event_id) == [kind |-> "event", event_id |-> event_id]
DateDivider == [kind |-> "date_divider", event_id |-> NoEvent]
ReadMarker == [kind |-> "read_marker", event_id |-> NoEvent]

PushFront(v) == [kind |-> "PushFront", index |-> 0, value |-> v]

ApplyTimelineDiff(seq, d) ==
    IF d.kind = "PushFront" THEN <<d.value>> \o seq ELSE ApplyVectorDiff(seq, d)

\* A change of the items, recorded for the subscribers.
Emit(st, d) == [items |-> ApplyTimelineDiff(st.items, d), updates |-> Append(st.updates, d)]

\* The index of the event's item, 0 when the timeline has none.
rfind_event_by_id(items, event_id) ==
    LET found == {i \in DOMAIN items : items[i].kind = "event" /\ items[i].event_id = event_id}
    IN IF found = {} THEN 0 ELSE CHOOSE i \in found : \A j \in found : j <= i

\* The index of the read marker, 0 when the timeline shows none.
read_marker_idx(items) ==
    LET found == {i \in DOMAIN items : items[i].kind = "read_marker"}
    IN IF found = {} THEN 0 ELSE CHOOSE i \in found : \A j \in found : j <= i

\* (mutant) the marker is inserted behind the last item too.
update_read_marker_at_end(st, fully_read_event) ==
    LET from == read_marker_idx(st.items)
        to == rfind_event_by_id(st.items, fully_read_event)
    IN IF fully_read_event = NoEvent \/ to = 0 \/ from # 0 THEN st
       ELSE Emit(st, InsertDiff(to + 1, ReadMarker))

\* The read marker follows the fully-read event, and is shown only when an
\* item comes after it; it never moves backwards.
update_read_marker(st, fully_read_event) ==
    LET from == read_marker_idx(st.items)
        to == rfind_event_by_id(st.items, fully_read_event)
        prev_len == Len(st.items)
    IN IF fully_read_event = NoEvent \/ to = 0 THEN st
       ELSE IF from = 0
       THEN IF to < prev_len THEN Emit(st, InsertDiff(to + 1, ReadMarker)) ELSE st
       ELSE IF from >= to THEN st
       ELSE LET removed == Emit(st, RemoveDiff(from))
            IN IF to < prev_len THEN Emit(removed, InsertDiff(to, ReadMarker)) ELSE removed

\* (mutant) an event the timeline already shows stays where it is.
handle_remote_event_in_place(st, event_id, fully_read_event) ==
    IF rfind_event_by_id(st.items, event_id) # 0 THEN st
    ELSE update_read_marker(Emit(st, PushBack(EventItem(event_id))), fully_read_event)

\* A remote event is added at the end; the item the timeline already shows
\* for the same event id is removed first.
handle_remote_event(st, event_id, fully_read_event) ==
    LET i == rfind_event_by_id(st.items, event_id)
        deduplicated == IF i # 0 THEN Emit(st, RemoveDiff(i)) ELSE st
    IN update_read_marker(Emit(deduplicated, PushBack(EventItem(event_id))), fully_read_event)

RECURSIVE add_remote_events(_, _, _)
add_remote_events(st, events, fully_read_event) ==
    IF events = <<>> THEN st
    ELSE add_remote_events(handle_remote_event(st, Head(events), fully_read_event),
                           Tail(events), fully_read_event)

\* The first item of a timeline that shows anything is a date divider.
adjust_date_dividers(st) ==
    IF st.items # <<>> /\ Head(st.items).kind # "date_divider"
    THEN Emit(st, PushFront(DateDivider))
    ELSE st

\* The timeline chunks of a sync response: each event once.
Batches ==
    {b \in UNION {[1..n -> TimelineEventIds] : n \in 1..MaxBatch} :
        \A i, j \in DOMAIN b : b[i] = b[j] => i = j}

\* A sync response brings a chunk of timeline events of the room.
TimelineSync ==
    /\ \E events \in Batches :
         LET st == adjust_date_dividers(
                      add_remote_events([items |-> tl.items, updates |-> <<>>], events,
                                        tl.fully_read_event))
         IN tl' = [tl EXCEPT !.items = st.items, !.batch = events, !.updates = st.updates]
    /\ UNCHANGED <<inner, session_meta, sync_token, rooms, rooms_lock, subs, pc, frame, last,
                   next_obj, calls, commit, gateVars, batchVars, sort, view, ntf>>

\* A sync response brings the room's fully-read marker.
TimelineFullyRead ==
    /\ \E event_id \in TimelineEventIds :
         LET st == IF tl.fully_read_event = event_id
                   THEN [items |-> tl.items, updates |-> <<>>]
                   ELSE update_read_marker([items |-> tl.items, updates |-> <<>>], event_id)
         IN tl' = [tl EXCEPT !.items = st.items, !.fully_read_event = event_id,
                             !.batch = <<>>, !.updates = st.updates]
    /\ UNCHANGED <<inner, session_meta, sync_token, rooms, rooms_lock, subs, pc, frame, last,
                   next_obj, calls, commit, gateVars, batchVars, sort, view, ntf>>

TimelineNext == TimelineSync \/ TimelineFullyRead

TimelineInit == Init /\ inner = Store_new

TimelineSpec == TimelineInit /\ [][TimelineNext]_vars

\* ------------------------------------------------------------ claims
\* A call in flight in slot t ends in this step.
Ends(t, op) == pc[t] # "idle" /\ frame[t].op = op /\ pc'[t] = "idle"

\* A call begins and ends in one and the same step.
BeginsAndEnds(op) == calls' = calls + 1 /\ pc' = pc /\ last'.op = op

\* A call begins in this step and stays in flight in slot t.
Starts(t, op) == calls' = calls + 1 /\ pc[t] = "idle" /\ pc'[t] # "idle" /\ frame'[t].op = op

\* C1: the session identity is committed at most once: a committed identity
\* never changes, and every set_or_reload_session call made when an identity
\* is already committed ends in the panic, never in Ok or in an error.
C1_SetTwicePanics ==
    [][/\ session_meta # NoMeta => session_meta' = session_meta
       /\ \A t \in Tasks :
            Ends(t, "sors") /\ frame[t].had_meta => last'.res = "Panic"
       /\ BeginsAndEnds("sors") /\ session_meta # NoMeta => last'.res = "Panic"]_vars

\* C2 (as stated): in every state in which an identity is committed, every
\* room record the durable store returned to the committing call is in the
\* room table and the sync token has been loaded.
C2_IdentityImpliesRoomsPresent ==
    session_meta # NoMeta =>
        /\ commit.done
        /\ commit.token_loaded
        /\ \A r \in commit.loaded : OM_contains(rooms, r)

\* C2 (amended): whenever an identity is committed, the call that committed
\* it had by then inserted every room record the durable store returned to it
\* and had stored the sync token it loaded; each of these rooms is in the
\* table unless a forget_room has taken it out since it was inserted.
C2_IdentityAfterPopulation ==
    session_meta # NoMeta =>
        /\ commit.done
        /\ commit.loaded \subseteq commit.inserted
        /\ commit.token_loaded
        /\ \A r \in commit.loaded : OM_contains(rooms, r) \/ r \in commit.forgotten

C2_Witness ==
    /\ session_meta # NoMeta
    /\ Cardinality(commit.loaded) = 2
    /\ commit.forgotten = {}
    /\ sync_token \in SyncTokens

Objs(om) == {om.values[i].obj : i \in 1..Len(om.values)}

\* C3: the table step of get_or_create_room, made with a committed identity:
\* when the table has no room for the id, exactly one fresh room with the
\* given state is appended and returned; when it has one, that very room is
\* returned, and the table is not modified and no diff is emitted.
C3_GetOrCreate ==
    [][\A t \in Tasks :
         Ends(t, "gocr") =>
           /\ session_meta # NoMeta
           /\ last'.res = "Ok"
           /\ IF OM_contains(rooms, frame[t].room_id)
              THEN /\ last'.room = OM_get(rooms, frame[t].room_id)
                   /\ rooms' = rooms
                   /\ subs' = subs
              ELSE /\ last'.room.room_id = frame[t].room_id
                   /\ last'.room.state = frame[t].state
                   /\ last'.room.obj \notin Objs(rooms)
                   /\ rooms'.values = Append(rooms.values, last'.room)
                   /\ DOMAIN rooms'.mapping = DOMAIN rooms.mapping \cup {frame[t].room_id}
                   /\ OM_get(rooms', frame[t].room_id) = last'.room]_vars

\* An existing room was returned although another state was supplied.
C3_Witness ==
    /\ last.op = "gocr"
    /\ last.res = "Ok"
    /\ last.room.state # last.state
    /\ OM_get(rooms, last.room_id) = last.room

\* C4: a get_or_create_room call made while no identity is committed panics
\* at once: it never reaches the table, the table is unchanged and no diff
\* is emitted.
C4_CreateBeforeSessionPanics ==
    [][/\ \A t \in Tasks : ~(Starts(t, "gocr") /\ session_meta = NoMeta)
       /\ BeginsAndEnds("gocr") =>
            /\ session_meta = NoMeta
            /\ last'.res = "Panic"
            /\ rooms' = rooms
            /\ subs' = subs
            /\ rooms_lock' = rooms_lock]_vars

C4_Witness == last.op = "gocr" /\ last.res = "Panic" /\ session_meta = NoMeta

\* C5: forget_room takes a room out of the table only after the durable
\* store has removed it; when the durable removal fails the call returns the
\* error, and the table and every subscriber's stream are as they were.
C5_ForgetStoreFirst ==
    [][/\ \A t \in Tasks :
            Ends(t, "forget") =>
              /\ frame[t].removed
              /\ last'.res = "Ok"
       /\ \A t \in Tasks :
            frame[t].op = "forget" /\ ~frame[t].removed => pc[t] = "idle"
       /\ BeginsAndEnds("forget") =>
            /\ last'.res = "Err"
            /\ rooms' = rooms
            /\ subs' = subs
            /\ inner' = inner]_vars

\* The durable removal failed and the room is still in the table.
C5_Witness ==
    /\ last.op = "forget"
    /\ last.res = "Err"
    /\ OM_contains(rooms, last.room_id)
    /\ last.room_id \in DOMAIN inner.room_infos

\* C6 (as stated): forgetting a room id that is not in the table returns
\* success, leaves the table unchanged and emits no diff.
C6_ForgetAbsentSucceeds ==
    [][/\ \A t \in Tasks :
            Ends(t, "forget") /\ ~OM_contains(rooms, frame[t].room_id) =>
              last'.res = "Ok" /\ rooms' = rooms /\ subs' = subs
       /\ BeginsAndEnds("forget") /\ ~OM_contains(rooms, last'.room_id) =>
            last'.res = "Ok" /\ rooms' = rooms /\ subs' = subs]_vars

\* C6 (amended): a forget_room call whose durable removal succeeded returns
\* success and leaves the table without the room; if the room was not in the
\* table, the table is unchanged and no diff is emitted, so that forgetting
\* an id twice ends in the same state as forgetting it once. The only error
\* forget_room returns is a failed durable removal, and then nothing changed.
C6_ForgetIdempotent ==
    [][/\ \A t \in Tasks :
            Ends(t, "forget") =>
              /\ last'.res = "Ok"
              /\ ~OM_contains(rooms', frame[t].room_id)
              /\ ~OM_contains(rooms, frame[t].room_id) => rooms' = rooms /\ subs' = subs
              /\ OM_contains(rooms, frame[t].room_id) =>
                   Len(rooms'.values) = Len(rooms.values) - 1
       /\ BeginsAndEnds("forget") =>
            last'.res = "Err" /\ rooms' = rooms /\ subs' = subs /\ inner' = inner]_vars

\* A room that was never in the table has been forgotten, with success.
C6_Witness ==
    /\ last.op = "forget"
    /\ last.res = "Ok"
    /\ next_obj = 1
    /\ calls > 1

\* C7: the table and its live sequence hold at most one Room per room
\* identifier, and both hold the same rooms: the mapping sends every id to
\* the position of the one room of that id.
C7_OneRoomPerId ==
    /\ \A i, j \in 1..Len(rooms.values) :
         rooms.values[i].room_id = rooms.values[j].room_id => i = j
    /\ DOMAIN rooms.mapping = SeqIds(rooms.values)
    /\ \A k \in DOMAIN rooms.mapping :
         /\ rooms.mapping[k] \in 1..Len(rooms.values)
         /\ rooms.values[rooms.mapping[k]].room_id = k

\* Two rooms are in the table after more than two rooms were made.
C7_Witness == Len(rooms.values) = 2 /\ next_obj > 3

\* C8: replaying the diffs a subscriber was handed (and those still buffered
\* for it) onto the sequence rooms_stream() returned to it gives the table's
\* current live sequence.
C8_ReplayGivesTable ==
    \A s \in DOMAIN subs :
        /\ Replay(subs[s].base, subs[s].recv \o subs[s].chan) = rooms.values
        /\ subs[s].chan = <<>> => Replay(subs[s].base, subs[s].recv) = rooms.values

HasKind(diffs, kind) == \E i \in 1..Len(diffs) : diffs[i].kind = kind

\* A subscriber has received everything, an insertion and a removal included.
C8_Witness ==
    \E s \in DOMAIN subs :
        /\ subs[s].chan = <<>>
        /\ HasKind(subs[s].recv, "PushBack")
        /\ HasKind(subs[s].recv, "Remove")

\* C9: the diffs a subscriber has received, followed by those buffered for
\* it, are exactly the diffs of the mutations applied since it subscribed,
\* in the order they were applied: none dropped, none duplicated.
C9_EveryDiffInOrder ==
    \A s \in DOMAIN subs : subs[s].recv \o subs[s].chan = subs[s].due

\* Two subscribers of the same mutations, one of which has not polled yet.
C9_Witness ==
    /\ Len(subs) = 2
    /\ subs[1].recv # <<>>
    /\ subs[2].recv = <<>>
    /\ Len(subs[2].chan) > 1

\* C10: the baseline a subscriber was given is the table's sequence at the
\* instant its subscription began, so that every mutation is either in the
\* baseline or among the diffs due to the subscriber, never both or neither.
C10_BaselineAtomic ==
    /\ \A s \in DOMAIN subs :
         /\ subs[s].base = subs[s].at_sub
         /\ Replay(subs[s].base, subs[s].due) = rooms.values
    /\ \A t \in Tasks : pc[t] = "rs_subscribe" => frame[t].base = rooms.values

\* A subscription taken between two mutations, while a writer waits for the lock.
C10_Witness ==
    \E t, u \in Tasks :
        /\ pc[t] = "rs_subscribe"
        /\ frame[t].base # <<>>
        /\ pc[u] \in {"sors_wlock", "gocr_wlock", "fr_wlock"}

\* The tasks whose sync cycle has entered the gate and not left it.
InGate == {t \in Tasks : frame[t].gate}

\* C11: at most one task is inside the synchronization gate at any time, the
\* one sync_lock names, and the writes (to the durable store, the room table
\* and the sync token) of two sync cycles are never interleaved: once another
\* cycle has written, a cycle writes no more.
C11_GateSerializesCycles ==
    /\ Cardinality(InGate) <= 1
    /\ \A t \in InGate : sync_lock = t
    /\ sync_lock # NoTask => sync_lock \in InGate
    /\ hist.cur \notin hist.done

\* A cycle that has saved its batch and made its rooms holds the gate while
\* another cycle waits for it.
C11_Witness ==
    \E t, u \in Tasks :
        /\ pc[t] = "sy_token"
        /\ hist.cur = frame[t].cycle
        /\ pc[u] = "sy_gate"
        /\ Len(rooms.values) = 2

\* The call in slot t takes a step.
Steps(t) == pc'[t] # pc[t] \/ frame'[t] # frame[t]

\* C12: a sync cycle calls get_or_create_room only inside the gate: in every
\* step in which a cycle changes the room table, and whenever a cycle stands
\* at its get_or_create_room calls, its task holds the synchronization gate.
C12_TableMutatedInsideGate ==
    [][\A t \in Tasks :
         /\ frame[t].op = "sync" /\ Steps(t) /\ rooms' # rooms =>
              sync_lock = t /\ frame[t].gate
         /\ pc[t] = "sy_rooms" => sync_lock = t /\ frame[t].gate]_vars

\* The second call, a sync cycle, has made the room of a room id that was
\* not known before and still holds the gate.
C12_Witness ==
    \E t \in Tasks :
        /\ session_meta = 1
        /\ calls = 2
        /\ pc[t] = "sy_token"
        /\ sync_lock = t
        /\ OM_contains(rooms, 2)

\* A call can begin in slot t.
Free(t) == pc[t] = "idle" /\ (\A u \in Tasks : u < t => pc[u] # "idle") /\ calls < MaxCalls

\* C13: no read waits for the synchronization gate: whoever holds the gate,
\* rooms(), rooms_filtered(), room() and rooms_stream() can run as soon as no
\* task holds the table's write lock, and a rooms_stream() that has begun
\* can always finish.
C13_ReadsIgnoreGate ==
    \A t \in Tasks :
        /\ Free(t) /\ rooms_lock.writer = NoTask =>
             /\ ENABLED Rooms(t)
             /\ ENABLED RoomsFiltered(t)
             /\ ENABLED Room(t)
             /\ Len(subs) + Cardinality({u \in Tasks : frame[u].op = "stream"}) < MaxSubs =>
                  ENABLED RoomsStream_Lock(t)
        /\ pc[t] = "rs_values" => ENABLED RoomsStream_Values(t)
        /\ pc[t] = "rs_subscribe" => ENABLED RoomsStream_Subscribe(t)

\* rooms() has returned the room a sync cycle made, while that cycle is
\* still inside the gate.
C13_Witness ==
    \E u \in Tasks :
        /\ session_meta = 1
        /\ calls = 3
        /\ sync_lock = u
        /\ pc[u] = "sy_token"
        /\ last.op = "rooms"
        /\ Len(last.list) = 2

\* Where a call is suspended at an await: on save_changes, on get_kv_data,
\* on the sync token's lock.
Awaits == {"sors_resave", "sors_kv", "sors_token"}

\* C14: no task holds the write lock of the room table while it is suspended:
\* set_or_reload_session holds it only in its restore loop, after
\* load_room_infos (the re-save included) has returned and before the
\* key-value read and the token write are awaited, and forget_room asks for
\* it only after the durable removal has succeeded.
C14_NoWriteLockAcrossAwait ==
    /\ \A t \in Tasks :
         /\ pc[t] \in Awaits \cup {"idle", "sors_wlock", "fr_wlock"} => rooms_lock.writer # t
         /\ rooms_lock.writer = t =>
              /\ pc[t] = "sors_insert"
              /\ frame[t].op = "sors"
              /\ frame[t].migrated_room_infos = <<>>
              /\ ~frame[t].token_loaded
         /\ pc[t] = "fr_wlock" => frame[t].removed
    /\ rooms_lock.writer \in Tasks \cup {NoTask}

\* A session start holds the lock in the middle of its restore loop, after
\* its re-save, while a forget_room whose removal is done waits for it.
C14_Witness ==
    \E t, u \in Tasks :
        /\ rooms_lock.writer = t
        /\ frame[t].inserted # {}
        /\ frame[t].room_infos # <<>>
        /\ pc[u] = "fr_wlock"

\* The entries of a section with the one at the keys replaced by the value,
\* or with the value added when the section has no entry at the keys.
Put(entries, keys, value) ==
    {x \in entries : x[1] # keys} \cup {<<keys, value>>}

\* The batch differs from the current one in the one section at most.
OnlySection(c, section) == [c EXCEPT ![section] = changes[section]] = changes

\* C15: whatever a batch holds, each accumulation operation applied to it
\* with a value that differs from the one the batch holds under the key
\* leaves exactly one entry under its composite key, holding the value just
\* added (the second value, when the key held one), and leaves every other
\* entry of the batch as it was.
C15_LastWriteWins ==
    /\ \A room \in RoomInfos :
         LET c == add_room(changes, room) IN
         /\ Entries1(c.room_infos) = Put(Entries1(changes.room_infos), <<room.room_id>>, room)
         /\ OnlySection(c, "room_infos")
    /\ LET E == Entries3(changes.state) IN
       \A e \in StateEvents, event_id \in EventIds :
         LET keys == <<e.room_id, e.event_type, e.state_key>>
             raw == [event_id |-> event_id, redacted |-> FALSE,
                     version |-> VersionOfEvent(E, keys)]
             c == add_state_event(changes, e.room_id,
                      [event_type |-> e.event_type, state_key |-> e.state_key], raw) IN
         /\ Entries3(c.state) = Put(E, keys, raw)
         /\ OnlySection(c, "state")
    /\ LET E == Entries2(changes.redactions) IN
       \A room_id \in RoomIds, id \in EventIds :
         LET v == Version(E, <<room_id, id>>)
             c == add_redaction(changes, room_id, id, v) IN
         /\ Entries2(c.redactions) = Put(E, <<room_id, id>>, v)
         /\ OnlySection(c, "redactions")
    /\ LET E == Entries1(changes.receipts) IN
       \A room_id \in RoomIds :
         LET v == Version(E, <<room_id>>)
             c == add_receipts(changes, room_id, v) IN
         /\ Entries1(c.receipts) = Put(E, <<room_id>>, v)
         /\ OnlySection(c, "receipts")
    /\ LET E == Entries2(changes.room_account_data) IN
       \A e \in RoomAccountData :
         LET v == Version(E, <<e.room_id, e.event_type>>)
             c == add_room_account_data(changes, e.room_id, [event_type |-> e.event_type], v) IN
         /\ Entries2(c.room_account_data) = Put(E, <<e.room_id, e.event_type>>, v)
         /\ OnlySection(c, "room_account_data")
    /\ LET E == Entries1(changes.presence) IN
       \A sender \in UserIds :
         LET v == Version(E, <<sender>>)
             c == add_presence_event(changes, [sender |-> sender], v) IN
         /\ Entries1(c.presence) = Put(E, <<sender>>, v)
         /\ OnlySection(c, "presence")
    /\ LET E == Entries3(changes.stripped_state) IN
       \A e \in StrippedMembers :
         LET keys == <<e.room_id, "m.room.member", e.user_id>>
             v == Version(E, keys)
             c == add_stripped_member(changes, e.room_id, e.user_id, v) IN
         /\ Entries3(c.stripped_state) = Put(E, keys, v)
         /\ OnlySection(c, "stripped_state")

\* Three events were added to a batch, two of them under one key of the
\* state section and nothing else: the section holds two entries, the
\* second event among them.
C15_Witness ==
    /\ adds = 3
    /\ Cardinality(Entries3(changes.state)) = 2
    /\ OnlySection(StateChanges_default, "state")
    /\ \E e \in Entries3(changes.state) : e[2].version = 2

\* C16: the batches saved so far, in order, on a store that was empty: the
\* room records of the store are those the single merged batch gives, the
\* entries of a later batch overriding those of an earlier one at identical
\* keys.
C16_LastWriteWinsAcrossBatches ==
    inner.room_infos = SaveChanges(Store_new, saved.merged).room_infos

\* A second batch was saved whose record of a room differs from the record
\* an earlier batch stored for it; the store holds the later record.
C16_Witness ==
    /\ changes = StateChanges_default
    /\ \E r \in saved.overrode :
         /\ r \in DOMAIN inner.room_infos
         /\ inner.room_infos[r] = Record(saved.merged.room_infos[r])
    /\ Cardinality(DOMAIN inner.room_infos) = 2

\* C17: the cursor the store holds is a value a session start read from the
\* key-value area or the cursor of a batch whose save succeeded; a cycle
\* changes the cursor to that of its batch only, after the batch was saved
\* and every room of it applied to the table; and a cycle that ends because
\* its save failed or because it was cancelled has not changed the cursor.
C17_CursorAfterSave ==
    /\ [](sync_token # NoToken => sync_token \in hist.loaded \cup hist.saved)
    /\ [][\A t \in Tasks :
            /\ Ends(t, "sync") /\ last'.res \in {"Err", "Cancelled"} =>
                 /\ sync_token' = sync_token
                 /\ sync_token # frame[t].changes.sync_token
                 /\ frame[t].changes.sync_token \notin hist'.saved
            /\ frame[t].op = "sync" /\ Steps(t) /\ sync_token' # sync_token =>
                 /\ sync_token' = frame[t].changes.sync_token
                 /\ sync_token' \in hist.saved
                 /\ frame[t].todo = <<>>]_vars

\* The second cycle of a started session saved its batch, created a room and
\* advanced the cursor from the loaded one to its own, after another
\* cycle's save had failed.
C17_Witness ==
    /\ session_meta # NoMeta
    /\ sync_token \in hist.saved
    /\ hist.loaded \cap SyncTokens # {}
    /\ sync_token \notin hist.loaded
    /\ last.op = "sync" /\ last.res = "Ok"
    /\ Cardinality(hist.saved) = 1
    /\ OM_contains(rooms, 2)

\* The batch without the redactions whose target is unknown.
WithoutUnknown(store, c) ==
    [c EXCEPT !.redactions =
        [r \in DOMAIN @ |->
           [id \in {i \in DOMAIN @[r] : <<r, i>> \notin UnknownTargets(store, c)} |-> @[r][id]]]]

\* C18: a redaction whose target neither the store nor the batch holds is
\* recorded by add_redaction under (room, redacted event id); a batch that
\* holds such redactions can be saved, and the save stores what the batch
\* without them stores; and after a save every stored state event of a room
\* whose id the batch redacts is redacted.
C18_UnknownRedactionTarget ==
    /\ \A room_id \in RoomIds, id \in EventIds :
         id \notin EventIdsOf(inner.state, room_id) \cup EventIdsOf(changes.state, room_id) =>
           LET v == Version(Entries2(changes.redactions), <<room_id, id>>)
               c == add_redaction(changes, room_id, id, v)
           IN /\ <<<<room_id, id>>, v>> \in Entries2(c.redactions)
              /\ <<room_id, id>> \in UnknownTargets(inner, c)
    /\ UnknownTargets(inner, changes) # {} =>
         /\ ENABLED SaveBatch
         /\ SaveChanges(inner, changes) = SaveChanges(inner, WithoutUnknown(inner, changes))
    /\ \A e \in Entries3(SaveChanges(inner, changes).state) :
         e[2].event_id \in DOMAIN Map_entry(changes.redactions, e[1][1]) => e[2].redacted

\* A batch with a redaction of an unknown event was saved; a later batch
\* brought the event and redacted it, and the store holds the event redacted.
C18_Witness ==
    /\ changes = StateChanges_default
    /\ \E e \in Entries3(inner.state) :
         /\ <<e[1][1], e[2].event_id>> \in saved.unknown
         /\ e[2].redacted

\* The ids of the stored room records a migration changes.
Unmigrated(store) == {k \in DOMAIN store.room_infos : ~store.room_infos[k].migrated}

\* C19: when set_or_reload_session has loaded the room records, it goes on
\* to re-save exactly when the migration changed a record; the batch it then
\* holds has the changed records, each with its migrated value, and nothing
\* in any other section; and the call changes the durable store in the
\* re-save only, by saving that batch.
C19_ResaveExactlyMigrated ==
    [][\A t \in Tasks :
         /\ Starts(t, "sors") =>
              /\ pc'[t] = "sors_resave" <=> Unmigrated(inner) # {}
              /\ frame'[t].changes =
                   [StateChanges_default EXCEPT !.room_infos =
                      [k \in Unmigrated(inner) |->
                         [room_id |-> k, state |-> inner.room_infos[k].state,
                          migrated |-> TRUE]]]
         /\ frame[t].op = "sors" /\ Steps(t) /\ inner' # inner =>
              /\ pc[t] = "sors_resave"
              /\ frame[t].changes.room_infos # Map_new
              /\ inner' = SaveChanges(inner, frame[t].changes)]_vars

\* A first start re-saved the migrated record of room 1 and left the record
\* of room 2 alone; a second start has loaded the records and goes on to the
\* table without a re-save.
C19_Witness ==
    \E t \in Tasks :
        /\ pc[t] = "sors_wlock"
        /\ frame[t].meta = 2
        /\ frame[t].loaded = {1, 2}
        /\ last.op = "sors" /\ last.res = "Ok"
        /\ DOMAIN inner.room_infos = {1, 2}
        /\ inner.room_infos[1].migrated
        /\ inner.room_infos[2] = Persisted(2)

\* C20 (as stated): a set_or_reload_session call whose re-save of the
\* migrated room records failed returns success and commits its identity.
C20_ResaveFailureStillSucceeds ==
    [][\A t \in Tasks :
         Ends(t, "sors") /\ frame[t].save_failed =>
           last'.res = "Ok" /\ session_meta' = frame[t].meta]_vars

\* C20 (amended): a failed re-save does not end the call: it goes on to the
\* table with the migrated records, and every room it inserts is restored
\* from one of them. The call then ends in success with its identity
\* committed, unless the read of the sync token fails (it returns the error,
\* the table populated, no identity committed by it) or an identity was
\* committed already (it panics).
C20_ResaveFailureNotFatal ==
    [][\A t \in Tasks :
         /\ pc[t] = "sors_resave" /\ Steps(t) =>
              /\ pc'[t] = "sors_wlock"
              /\ frame'[t].room_infos = frame[t].room_infos
              /\ \A i \in DOMAIN frame[t].room_infos : frame[t].room_infos[i].migrated
         /\ frame[t].save_failed /\ Steps(t) /\ rooms' # rooms =>
              /\ frame[t].room_infos # <<>>
              /\ Head(frame[t].room_infos).migrated
              /\ OM_contains(rooms', Head(frame[t].room_infos).room_id)
              /\ OM_get(rooms', Head(frame[t].room_infos).room_id).state
                    = Head(frame[t].room_infos).state
         /\ Ends(t, "sors") /\ frame[t].save_failed =>
              /\ frame[t].inserted = frame[t].loaded
              /\ \/ /\ last'.res = "Ok"
                    /\ session_meta = NoMeta
                    /\ session_meta' = frame[t].meta
                 \/ /\ last'.res = "Err"
                    /\ pc[t] = "sors_kv"
                    /\ session_meta' = session_meta
                 \/ /\ last'.res = "Panic"
                    /\ pc[t] = "sors_set"
                    /\ session_meta # NoMeta
                    /\ session_meta' = session_meta]_vars

\* The one call made so far returned success and committed its identity;
\* room 1 is in the table although the durable store still holds its record
\* as it was before the migration: the re-save failed.
C20_Witness ==
    /\ calls = 1
    /\ last.op = "sors" /\ last.res = "Ok"
    /\ session_meta = 1
    /\ commit.done
    /\ OM_contains(rooms, 1)
    /\ 1 \in DOMAIN inner.room_infos
    /\ ~inner.room_infos[1].migrated

\* ---- claims about the sorters of the room list ----

\* A sorter built by op was called with two rooms of different ids.
Compared(op) == sort.op = op /\ sort.called /\ sort.left.room_id # sort.right.room_id

\* The tiers of the tag sorter, first to last.
TagTiers == <<"invited", "favourite", "middle", "low_priority">>

TagTier(room, pin_favorites, bury_low_priority) ==
    CASE room.state = "Invited" -> "invited"
      [] room.state # "Invited" /\ room.is_favourite /\ pin_favorites -> "favourite"
      [] /\ room.state # "Invited" /\ ~(room.is_favourite /\ pin_favorites)
         /\ room.is_low_priority /\ bury_low_priority -> "low_priority"
      [] OTHER -> "middle"

TierIndex(tiers, tier) == CHOOSE i \in DOMAIN tiers : tiers[i] = tier

\* C21: the tag sorter orders two distinct rooms by tier: invited rooms
\* first; then, when favourites are pinned, the favourite rooms (low-priority
\* or not); last, when low-priority rooms are buried, the low-priority rooms;
\* every other room in the middle. A room of an earlier tier is Less.
C21_TagTiers ==
    Compared("tag") =>
      LET pin == sort.sort_order.pin_favorites
          bury == sort.sort_order.bury_low_priority
      IN sort.ordering = cmp(TierIndex(TagTiers, TagTier(sort.left, pin, bury)),
                             TierIndex(TagTiers, TagTier(sort.right, pin, bury)))

\* With favourites pinned and low-priority rooms buried, a joined room that
\* is both was compared with a joined room that is neither: it is Less.
C21_Witness ==
    /\ Compared("tag")
    /\ sort.sort_order.pin_favorites /\ sort.sort_order.bury_low_priority
    /\ sort.left.state = "Joined" /\ sort.left.is_favourite /\ sort.left.is_low_priority
    /\ sort.right.state = "Joined" /\ ~sort.right.is_favourite /\ ~sort.right.is_low_priority
    /\ sort.ordering = "Less"

\* The counts of a room in the configured source: the notification count
\* and the generic unread count are the client's or the server's, the
\* mention count is the client's.
NotificationCount(room, client_generated) ==
    IF client_generated THEN room.num_unread_notifications ELSE room.notification_count

GenericCount(room, client_generated) ==
    IF client_generated THEN room.num_unread_messages
    ELSE IF room.unread_count = NoCount THEN 0 ELSE room.unread_count

\* The tiers of the unread sorter, top to bottom.
UnreadTiers == <<"top", "middle", "bottom">>

UnreadTier(room, client_generated, generic_counts) ==
    IF \/ room.is_marked_unread
       \/ NotificationCount(room, client_generated) > 0
       \/ room.num_unread_mentions > 0
    THEN "top"
    ELSE IF generic_counts /\ GenericCount(room, client_generated) > 0 THEN "middle"
    ELSE "bottom"

\* C22 (as stated): the unread sorter orders two distinct rooms by tier, a
\* room with nothing but a positive generic unread count being in the middle
\* tier under every configuration.
C22_UnreadTiersAlways ==
    Compared("unread") =>
      LET cg == sort.sort_order.client_generated_unread
      IN sort.ordering = cmp(TierIndex(UnreadTiers, UnreadTier(sort.left, cg, TRUE)),
                             TierIndex(UnreadTiers, UnreadTier(sort.right, cg, TRUE)))

\* C22 (amended): the unread sorter orders two distinct rooms by tier: top
\* for a room marked unread or with a positive notification or mention
\* count; middle for another room with a positive generic unread count, when
\* with_silent_unread is set; bottom for every other room. The notification
\* and generic counts are those of the configured source.
C22_UnreadTiers ==
    Compared("unread") =>
      LET cg == sort.sort_order.client_generated_unread
          ws == sort.sort_order.with_silent_unread
      IN sort.ordering = cmp(TierIndex(UnreadTiers, UnreadTier(sort.left, cg, ws)),
                             TierIndex(UnreadTiers, UnreadTier(sort.right, cg, ws)))

\* With the server's counts and the silent ones counted, a room with nothing
\* but a generic unread count was compared with a room marked unread: it is
\* Greater, although the client counts a notification for it.
C22_Witness ==
    /\ Compared("unread")
    /\ ~sort.sort_order.client_generated_unread /\ sort.sort_order.with_silent_unread
    /\ ~sort.left.is_marked_unread /\ sort.left.num_unread_mentions = 0
    /\ sort.left.notification_count = 0 /\ sort.left.unread_count = 1
    /\ sort.left.num_unread_notifications = 1
    /\ sort.right.is_marked_unread
    /\ sort.ordering = "Greater"

\* The room with its generic unread counts, the client's and the server's,
\* and its id taken from another room.
WithGenericCountsOf(room, other) ==
    [room EXCEPT !.room_id = other.room_id,
                 !.num_unread_messages = other.num_unread_messages,
                 !.unread_count = other.unread_count]

\* C23: with with_silent_unread off, whichever the source of the counts, the
\* unread sorter gives no room the weight of the middle tier, and two
\* distinct rooms that differ in their generic unread counts only are Equal.
C23_SilentCountsIgnored ==
    Compared("unread") /\ ~sort.sort_order.with_silent_unread =>
      LET cg == sort.sort_order.client_generated_unread IN
      /\ room_to_unread_weight(sort.left, cg, FALSE) \in {0, 2}
      /\ room_to_unread_weight(sort.right, cg, FALSE) \in {0, 2}
      /\ sort.left = WithGenericCountsOf(sort.right, sort.left) => sort.ordering = "Equal"
      /\ sort.ordering = cmp(TierIndex(UnreadTiers, UnreadTier(sort.left, cg, FALSE)),
                             TierIndex(UnreadTiers, UnreadTier(sort.right, cg, FALSE)))

\* With the client's counts and the silent ones left out, a room with unread
\* messages was compared with a room that differs in having none: Equal.
C23_Witness ==
    /\ Compared("unread")
    /\ ~sort.sort_order.with_silent_unread /\ sort.sort_order.client_generated_unread
    /\ sort.left.num_unread_messages = 1 /\ sort.right.num_unread_messages = 0
    /\ sort.left = WithGenericCountsOf(sort.right, sort.left)
    /\ ~sort.left.is_marked_unread /\ sort.left.num_unread_notifications = 0
    /\ sort.left.num_unread_mentions = 0
    /\ sort.ordering = "Equal"

\* The kinds of the sorters of a chain, in order.
Kinds(sorters) == [i \in DOMAIN sorters |-> sorters[i].kind]

\* C24: the chain built for a sort order starts with the tag sorter, made
\* with its pin_favorites and bury_low_priority; the unread sorter is in it
\* exactly when by_unread is set, next after the tag sorter and made with
\* client_generated_unread and with_silent_unread; recency and name are its
\* last two sorters, after the latest-event sorter when that one is enabled;
\* and From<ScSortOrder> builds the chain of get_sc_sort_box(setting, false).
C24_ChainPrecedence ==
    sort.op \in {"get_sc_sort_box", "from"} =>
      LET o == sort.sort_order
          n == Len(sort.sorters)
      IN /\ n >= 3
         /\ sort.sorters[1] = new_sorter_tag(o.pin_favorites, o.bury_low_priority)
         /\ (\E i \in 1..n : sort.sorters[i].kind = "unread") <=> o.by_unread
         /\ o.by_unread =>
              sort.sorters[2] = new_sorter_unread(o.client_generated_unread,
                                                  o.with_silent_unread)
         /\ sort.sorters[n - 1].kind = "recency"
         /\ sort.sorters[n].kind = "name"
         /\ Kinds(sort.sorters) =
              <<"tag">> \o (IF o.by_unread THEN <<"unread">> ELSE <<>>)
                        \o (IF sort.enable_latest_event_sorter THEN <<"latest_event">> ELSE <<>>)
                        \o <<"recency", "name">>
         /\ sort.op = "from" =>
              /\ ~sort.enable_latest_event_sorter
              /\ sort.sorters = get_sort_by_vec(o, FALSE)

\* From<ScSortOrder> built the chain of a sort order that sorts by unread
\* and neither pins nor buries: tag, unread, recency, name.
C24_Witness ==
    /\ sort.op = "from"
    /\ sort.sort_order.by_unread
    /\ ~sort.sort_order.pin_favorites /\ ~sort.sort_order.bury_low_priority
    /\ Kinds(sort.sorters) = <<"tag", "unread", "recency", "name">>

\* What each sorter of the chain returns for the two rooms compared.
Results == [i \in DOMAIN sort.sorters |-> Sorter_call(sort.sorters[i], sort.left, sort.right)]

\* C25: the chain returns what its first sorter that is not Equal returns,
\* whatever the sorters after that one return, and Equal exactly when every
\* sorter of it returns Equal.
C25_FirstNonEqualDecides ==
    sort.op \in {"get_sc_sort_box", "from"} /\ sort.called =>
      /\ \A i \in DOMAIN Results :
           Results[i] # "Equal" /\ (\A j \in 1..(i - 1) : Results[j] = "Equal") =>
             sort.ordering = Results[i]
      /\ sort.ordering = "Equal" <=> \A i \in DOMAIN Results : Results[i] = "Equal"

\* Two rooms of one tag tier were compared: the unread sorter said Less, the
\* recency sorter after it Greater, and the chain returned Less.
C25_Witness ==
    /\ sort.op = "get_sc_sort_box" /\ sort.called
    /\ Kinds(sort.sorters) = <<"tag", "unread", "recency", "name">>
    /\ Results[1] = "Equal" /\ Results[2] = "Less" /\ Results[3] = "Greater"
    /\ sort.ordering = "Less"

\* C26: called with two arguments of one room id, the tag sorter and the
\* unread sorter return Greater, whatever the configuration, the tags and
\* the counts of the arguments.
C26_SelfComparisonGreater ==
    /\ sort.op \in {"tag", "unread"} /\ sort.called
    /\ sort.left.room_id = sort.right.room_id
    => sort.ordering = "Greater"

\* The tag sorter was called with two arguments of one room id, the left
\* one invited and the right one not: Greater, though its weight is less.
C26_Witness ==
    /\ sort.op = "tag" /\ sort.called
    /\ sort.left.room_id = sort.right.room_id
    /\ sort.left.state = "Invited" /\ sort.right.state = "Joined"
    /\ sort.ordering = "Greater"

\* The places of the scenario's kinds of room: invited, favourite joined,
\* other joined.
Place(room) ==
    IF room.state = "Invited" THEN 1 ELSE IF room.is_favourite THEN 2 ELSE 3

\* C27: with pin_favorites and by_unread set, the chain puts an invited room
\* before a favourite joined room and a favourite joined room before a
\* joined room that is not favourite, whatever the unread counts of the two.
C27_TagDominatesUnread ==
    /\ sort.op \in {"get_sc_sort_box", "from"} /\ sort.called
    /\ sort.sort_order.pin_favorites /\ sort.sort_order.by_unread
    /\ Place(sort.left) # Place(sort.right)
    => sort.ordering = cmp(Place(sort.left), Place(sort.right))

\* Room C (joined, favourite, nothing unread) was compared with room A
\* (joined, three unread messages) under pin_favorites, by_unread and
\* with_silent_unread: the unread sorter alone puts A first, the chain C.
C27_Witness ==
    /\ sort.op = "from" /\ sort.called
    /\ sort.sort_order.pin_favorites /\ sort.sort_order.by_unread
    /\ sort.sort_order.with_silent_unread
    /\ sort.left.state = "Joined" /\ sort.left.is_favourite
    /\ sort.left.num_unread_messages = 0 /\ sort.left.unread_count = 0
    /\ sort.right.state = "Joined" /\ ~sort.right.is_favourite
    /\ sort.right.num_unread_messages = 3 /\ sort.right.unread_count = 3
    /\ Results[2] = "Greater"
    /\ sort.ordering = "Less"

\* ---- claims about the projection of the room list ----
\* The value a sorter of the stack reads off a room.
SorterValue(sorter, room) ==
    CASE sorter.kind = "tag" -> room_to_tag_weight(room, sorter.a, sorter.b)
      [] sorter.kind = "unread" -> room_to_unread_weight(room, sorter.a, sorter.b)
      [] sorter.kind = "latest_event" -> room.latest_event_is_local
      [] sorter.kind = "recency" -> room.recency
      [] OTHER -> room.name

SameValues(sorters, left, right) ==
    \A i \in DOMAIN sorters : SorterValue(sorters[i], left) = SorterValue(sorters[i], right)

\* The pairs of distinct rooms of the table with the same value on every
\* sorter of the stack.
Ties ==
    {pair \in (DOMAIN view.table) \X (DOMAIN view.table) :
        /\ pair[1] # pair[2]
        /\ SameValues(view.sorters, view.table[pair[1]], view.table[pair[2]])}

Accepted == {view.table[i] : i \in {j \in DOMAIN view.table : Filter_call(view.filter, view.table[j])}}

\* C29: after any sequence of inserts, removals and updates of the room
\* table, the projection holds exactly the rooms of the table the filter
\* accepts, each once, no room before one the sorter puts it after, and the
\* diffs the projection emitted, replayed onto its initial sequence, give
\* the projection.
C29_ProjectionFollowsTable ==
    view.open =>
        /\ {view.projection[i] : i \in DOMAIN view.projection} = Accepted
        /\ Len(view.projection) = Cardinality(Accepted)
        /\ \A i \in DOMAIN view.projection : \A j \in DOMAIN view.projection :
             i < j => new_sorter_lexicographic(view.sorters, view.projection[i],
                                               view.projection[j]) # "Greater"
        /\ view.replayed = view.projection

\* An update has moved a room of a projection of three rooms, one room of
\* the table is filtered out.
C29_Witness ==
    /\ view.open
    /\ Len(view.table) = 3
    /\ Len(view.projection) = 2
    /\ view.input.kind = "Set"
    /\ Len(view.out) = 2
    /\ view.out[1].kind = "Remove" /\ view.out[2].kind = "Insert"
    /\ view.out[1].index # view.out[2].index

\* ---- claims about the notification client ----
\* The strings that are identifiers of a room, and of an event.
WellFormedRoomIds == {<<"!", "a", ":", "h">>, <<"!", "b", ":", "h">>}

WellFormedEventIds == {<<"$", "e">>, <<"$", "f">>}

\* The call that ended last was given an identifier that is none.
MalformedCall(n) ==
    \/ n.op \in {"get_room", "get_notification"} /\ n.room_id \notin WellFormedRoomIds
    \/ n.op = "get_notification" /\ n.event_id \notin WellFormedEventIds

\* C30: get_room and get_notification return an error, and nothing else,
\* for a malformed room or event identifier; the call does not get to the
\* client behind them, whose rooms and record of queries stay as they were.
C30_MalformedIdIsAnError ==
    /\ [](ntf.result.kind \in {"none", "Ok", "Err"})
    /\ [](MalformedCall(ntf) => ntf.result = IdParseError)
    /\ [][MalformedCall(ntf') => ntf'.client = ntf.client]_vars

\* The client has been asked about rooms and events, then a call with a
\* room identifier and a malformed event identifier ended in the error.
C30_Witness ==
    /\ ntf.op = "get_notification"
    /\ ntf.room_id \in WellFormedRoomIds
    /\ ntf.event_id \notin WellFormedEventIds
    /\ ntf.result = IdParseError
    /\ ntf.client.rooms # {}
    /\ \E q \in ntf.client.queried : q[1] = "get_room"

\* ---- further claims about the store ----
\* C35: a set_or_reload_session call made when an identity is already
\* committed changes neither the room table (which Room object is stored
\* under each id included) nor the sync cursor, and emits no diff: none of
\* its steps does.
C35_LateCallLeavesStore ==
    [][\A t \in Tasks :
         frame[t].op = "sors" /\ frame[t].had_meta /\ Steps(t) =>
            rooms' = rooms /\ sync_token' = sync_token /\ subs' = subs]_vars

\* C36 as claimed: a set_or_reload_session call that returns an error has
\* changed nothing: neither the room table, nor the sync cursor, nor the
\* identity.
C36_ErrorLeavesStore ==
    [][/\ BeginsAndEnds("sors") /\ last'.res = "Err" =>
            rooms' = rooms /\ sync_token' = sync_token /\ session_meta' = session_meta
       /\ \A t \in Tasks :
            Ends(t, "sors") /\ last'.res = "Err" =>
               /\ frame[t].inserted = {}
               /\ ~frame[t].token_loaded
               /\ session_meta' = session_meta /\ session_meta # frame[t].meta
               /\ rooms' = rooms /\ sync_token' = sync_token]_vars

\* C36 as amended: a set_or_reload_session call that returns an error has
\* changed neither the sync cursor nor the identity; when the load of the
\* room records failed it has not changed the room table either, and when
\* the read of the persisted cursor failed it has inserted every room record
\* it loaded into the table.
C36_ErrorLeavesCursorAndIdentity ==
    [][/\ BeginsAndEnds("sors") /\ last'.res = "Err" =>
            rooms' = rooms /\ subs' = subs /\ sync_token' = sync_token
            /\ session_meta' = session_meta
       /\ \A t \in Tasks :
            Ends(t, "sors") /\ last'.res = "Err" =>
               /\ pc[t] = "sors_kv"
               /\ frame[t].inserted = frame[t].loaded
               /\ ~frame[t].token_loaded
               /\ session_meta' = session_meta /\ session_meta # frame[t].meta
               /\ rooms' = rooms /\ sync_token' = sync_token]_vars

\* The first call loaded a room, inserted it and failed to read the cursor
\* the durable store holds; no identity is committed.
C36_Witness ==
    /\ last.op = "sors" /\ last.res = "Err"
    /\ calls = 1
    /\ Len(rooms.values) = 1
    /\ inner.sync_token # NoToken
    /\ sync_token = NoToken
    /\ session_meta = NoMeta

\* C37: when two get_or_create_room calls for one absent room id are in
\* flight together, the one that gets to the table first creates the room,
\* appends it and emits one insertion diff to every subscriber, while the
\* other is still waiting for the table; a call that ends after a call for
\* the same id returned a room the table still holds returns that very room,
\* creates nothing and emits nothing.
C37_ConcurrentCreateOnce ==
    [][/\ \A t \in Tasks : \A u \in Tasks \ {t} :
            /\ Ends(t, "gocr")
            /\ frame[u].op = "gocr" /\ frame[u].room_id = frame[t].room_id
            /\ ~OM_contains(rooms, frame[t].room_id)
            => /\ pc[u] = "gocr_wlock" /\ pc'[u] = "gocr_wlock"
               /\ last'.res = "Ok"
               /\ rooms'.values = Append(rooms.values, last'.room)
               /\ OM_get(rooms', frame[u].room_id) = last'.room
               /\ next_obj' = next_obj + 1
               /\ \A s \in DOMAIN subs :
                    subs'[s].due = subs[s].due \o <<PushBack(last'.room)>>
       /\ \A u \in Tasks :
            /\ Ends(u, "gocr")
            /\ last.op = "gocr" /\ last.res = "Ok" /\ last.room_id = frame[u].room_id
            /\ OM_get(rooms, frame[u].room_id) = last.room
            => /\ last'.res = "Ok" /\ last'.room = last.room
               /\ rooms' = rooms /\ subs' = subs /\ next_obj' = next_obj]_vars

\* Two calls for one absent room id were in flight together: the first has
\* created the room and returned it, the second is about to get to the table.
C37_Witness ==
    /\ calls = 3
    /\ pc[2] = "gocr_wlock"
    /\ last.op = "gocr" /\ last.res = "Ok"
    /\ last.room_id = frame[2].room_id
    /\ last.room.obj = next_obj - 1
    /\ last.state # frame[2].state
    /\ rooms.values = <<last.room>>

\* A set_or_reload_session call has inserted some, not all, of the rooms it
\* loaded.
Populating(t) ==
    /\ frame[t].op = "sors"
    /\ frame[t].inserted # {}
    /\ frame[t].inserted # frame[t].loaded

\* A step in which rooms(), rooms_filtered() or rooms_stream() reads the table.
ReadsTable ==
    \/ BeginsAndEnds("rooms")
    \/ BeginsAndEnds("rooms_filtered")
    \/ \E t \in Tasks : pc[t] = "rs_values" /\ pc'[t] = "rs_subscribe"

EntriesOf(c, section) ==
    CASE section \in {"presence", "room_infos", "receipts"} -> Entries1(c[section])
      [] section \in {"room_account_data", "redactions"} -> Entries2(c[section])
      [] OTHER -> Entries3(c[section])

\* The step leaves every section but the one as it was, the sync_token
\* included, and within the section every entry but the one under keys,
\* which the section holds afterwards.
OnlyEntry(section, keys) ==
    /\ OnlySection(changes', section)
    /\ changes'.sync_token = changes.sync_token
    /\ {x \in EntriesOf(changes', section) : x[1] # keys}
          = {x \in EntriesOf(changes, section) : x[1] # keys}
    /\ \E x \in EntriesOf(changes', section) : x[1] = keys

\* An accumulation operation has given c.
Added(c) == adds' = adds + 1 /\ changes' = c

\* C39: each accumulation operation changes only the entry at its own
\* composite key in its own section, and leaves every other entry, every
\* other section and the sync_token of the batch as they were;
\* StateChanges::new(token) gives a batch with that token and no entry.
C39_AddChangesOneEntry ==
    [][/\ \A sender \in UserIds :
            Added(add_presence_event(changes, [sender |-> sender],
                                     Version(Entries1(changes.presence), <<sender>>)))
            => OnlyEntry("presence", <<sender>>)
       /\ \A room \in RoomInfos :
            Added(add_room(changes, room)) => OnlyEntry("room_infos", <<room.room_id>>)
       /\ \A e \in RoomAccountData :
            Added(add_room_account_data(changes, e.room_id, [event_type |-> e.event_type],
                                        Version(Entries2(changes.room_account_data),
                                                <<e.room_id, e.event_type>>)))
            => OnlyEntry("room_account_data", <<e.room_id, e.event_type>>)
       /\ \A e \in StrippedMembers :
            Added(add_stripped_member(changes, e.room_id, e.user_id,
                                      Version(Entries3(changes.stripped_state),
                                              <<e.room_id, "m.room.member", e.user_id>>)))
            => OnlyEntry("stripped_state", <<e.room_id, "m.room.member", e.user_id>>)
       /\ \A e \in StateEvents, event_id \in EventIds :
            Added(add_state_event(changes, e.room_id,
                                  [event_type |-> e.event_type, state_key |-> e.state_key],
                                  [event_id |-> event_id, redacted |-> FALSE,
                                   version |-> VersionOfEvent(Entries3(changes.state),
                                                  <<e.room_id, e.event_type, e.state_key>>)]))
            => OnlyEntry("state", <<e.room_id, e.event_type, e.state_key>>)
       /\ \A room_id \in RoomIds, redacted_event_id \in EventIds :
            Added(add_redaction(changes, room_id, redacted_event_id,
                                Version(Entries2(changes.redactions),
                                        <<room_id, redacted_event_id>>)))
            => OnlyEntry("redactions", <<room_id, redacted_event_id>>)
       /\ \A room_id \in RoomIds :
            Added(add_receipts(changes, room_id,
                               Version(Entries1(changes.receipts), <<room_id>>)))
            => OnlyEntry("receipts", <<room_id>>)
       /\ \A token \in SyncTokens :
            adds' = adds /\ changes = StateChanges_default
            /\ changes' = StateChanges_new(token)
            => /\ changes'.sync_token = token
               /\ [changes' EXCEPT !.sync_token = NoToken] = StateChanges_default
               /\ \A section \in DOMAIN changes' \ {"sync_token"} :
                    changes'[section] = Map_new]_vars

\* A batch made with a token holds the receipts of both rooms and a state
\* event: its third entry went to a section that held one of another key.
C39_Witness ==
    /\ adds = 3
    /\ changes.sync_token \in SyncTokens
    /\ DOMAIN changes.receipts = RoomIds
    /\ Cardinality(Entries3(changes.state)) = 1

\* ---- further claims about the sorters ----

\* The tier of a room when the server's counts are used: the notification
\* count and the generic count are the server's, the mention count the
\* client's.
ServerModeTier(room, with_silent_unread) ==
    IF room.is_marked_unread \/ room.notification_count > 0 \/ room.num_unread_mentions > 0
    THEN 1
    ELSE IF with_silent_unread /\ room.unread_count # NoCount /\ room.unread_count > 0 THEN 2
    ELSE 3

OnlyClientMentions(room) ==
    /\ ~room.is_marked_unread /\ room.num_unread_mentions > 0
    /\ room.notification_count = 0 /\ room.unread_count \in {0, NoCount}

\* C34: with client_generated_unread = false the unread sorter orders two
\* distinct rooms by the server's notification count and the server's
\* generic unread count and by the client's mention count; a room with a
\* positive client mention count and every server count zero is never
\* ordered after another room.
C34_ServerModeUsesClientMentions ==
    Compared("unread") /\ ~sort.sort_order.client_generated_unread =>
      LET ws == sort.sort_order.with_silent_unread
      IN /\ sort.ordering = cmp(ServerModeTier(sort.left, ws), ServerModeTier(sort.right, ws))
         /\ OnlyClientMentions(sort.left) => sort.ordering # "Greater"
         /\ OnlyClientMentions(sort.left) /\ ServerModeTier(sort.right, ws) > 1 =>
               sort.ordering = "Less"

\* With the server's counts, a room with one client-computed mention and no
\* server count was compared with a room the server reports a generic unread
\* count for, the silent ones counted: the mentioned room comes first.
C34_Witness ==
    /\ Compared("unread")
    /\ ~sort.sort_order.client_generated_unread /\ sort.sort_order.with_silent_unread
    /\ OnlyClientMentions(sort.left)
    /\ sort.left.num_unread_notifications = 0 /\ sort.left.num_unread_messages = 0
    /\ ~sort.right.is_marked_unread /\ sort.right.num_unread_mentions = 0
    /\ sort.right.notification_count = 0 /\ sort.right.unread_count = 1
    /\ sort.ordering = "Less"

\* ---- further claims about the filters ----

\* C33: the filter made by sc_rooms::new_filter(rooms) accepts a room only if
\* the room is a favourite: with that filter alone, every room of the
\* projection is a favourite.
C33_ScRoomsKeepsFavourites ==
    view.open /\ ~view.filter.favourite =>
        /\ \A i \in DOMAIN view.table :
             ScRoomsMatcher_matches(view.filter.rooms, view.table[i]) =>
                view.table[i].is_favourite
        /\ \A i \in DOMAIN view.projection : view.projection[i].is_favourite

\* ---- claims about the timeline ----

\* The event ids of the timeline's event items, in their order.
EventsOf(items) == SelectSeq(items, LAMBDA item : item.kind = "event")

ShownEventIds(items) == [i \in DOMAIN EventsOf(items) |-> EventsOf(items)[i].event_id]

IsSuffix(s, t) == Len(s) <= Len(t) /\ SubSeq(t, Len(t) - Len(s) + 1, Len(t)) = s

\* C31: after any sequence of syncs each event id appears at most once in
\* the timeline, and after a sync that brought a chunk of events, whether
\* the timeline showed some of them already or not, the timeline ends with
\* the events of that chunk in the chunk's order: A, B, C received after C
\* alone gives A, B, C.
C31_DuplicateKeepsLatestOrder ==
    LET ids == ShownEventIds(tl.items)
    IN /\ \A i, j \in DOMAIN ids : ids[i] = ids[j] => i = j
       /\ tl.batch # <<>> => IsSuffix(tl.batch, ids)

\* The chunk A, B, C came to a timeline that showed C: the item of C was
\* removed and the timeline shows A, B, C.
C31_Witness ==
    /\ tl.batch = <<1, 2, 3>>
    /\ \E i \in DOMAIN tl.updates : tl.updates[i].kind = "Remove"
    /\ tl.items = <<DateDivider, EventItem(1), EventItem(2), EventItem(3)>>

\* The fully-read event is the last item of the timeline, which shows no
\* read marker.
MarkerPending(t) ==
    /\ t.items # <<>>
    /\ read_marker_idx(t.items) = 0
    /\ t.fully_read_event # NoEvent
    /\ rfind_event_by_id(t.items, t.fully_read_event) = Len(t.items)

\* A fully-read marker came that points at the latest event of a timeline
\* that shows no marker.
MarkedLatest ==
    tl'.batch = <<>> /\ tl' # tl /\ read_marker_idx(tl.items) = 0 /\ MarkerPending(tl')

\* A chunk of other events came while the fully-read event was the last item.
AppendedBehind ==
    /\ MarkerPending(tl) /\ tl'.batch # <<>>
    /\ \A i \in DOMAIN tl'.batch : tl'.batch[i] # tl.fully_read_event

MaxLiveCalls == 2

\* What a task does with the store and the gate: the store's operations and
\* the sync cycles.
LiveTask(t) ==
    \/ calls < MaxLiveCalls /\ LoadRoomInfos_Get(t)
    \/ LoadRoomInfos_Save(t)
    \/ SetOrReloadSession_Lock(t)
    \/ SetOrReloadSession_Insert(t)
    \/ SetOrReloadSession_Unlock(t)
    \/ SetOrReloadSession_GetKv(t)
    \/ SetOrReloadSession_WriteToken(t)
    \/ SetOrReloadSession_SetMeta(t)
    \/ calls < MaxLiveCalls /\ GetOrCreateRoom_Check(t)
    \/ GetOrCreateRoom_Do(t)
    \/ calls < MaxLiveCalls /\ ForgetRoom_Remove(t)
    \/ ForgetRoom_Do(t)
    \/ calls < MaxLiveCalls /\ Rooms(t)
    \/ calls < MaxLiveCalls /\ RoomsFiltered(t)
    \/ calls < MaxLiveCalls /\ RoomsStream_Lock(t)
    \/ RoomsStream_Values(t)
    \/ RoomsStream_Subscribe(t)
    \/ calls < MaxLiveCalls /\ SyncCycle_Begin(t)
    \/ SyncCycle_Cancel(t)
    \/ SyncCycle_Lock(t)
    \/ SyncCycle_Save(t)
    \/ SyncCycle_Room(t)
    \/ SyncCycle_Token(t)

LiveNext == \E t \in Tasks : LiveTask(t)

\* A call in flight takes its next step: the executor polls every task that
\* can proceed, the durable store answers, and a lock that is free is given
\* to one that waits for it.
Proceeds(t) == pc[t] # "idle" /\ LiveTask(t)

LiveSpec == SyncInit /\ [][LiveNext]_vars /\ \A t \in Tasks : WF_vars(Proceeds(t))

\* C40: under fair scheduling every call in flight, of the store's
\* operations and of the sync cycles around them, ends, by returning or by
\* panicking; the lock of the room table is always free again for rooms()
\* and rooms_filtered(), which take it and return in one step, and the gate
\* is always released again.
C40_EveryCallReturns ==
    /\ \A t \in Tasks : (pc[t] # "idle") ~> (pc[t] = "idle")
    /\ (rooms_lock # [writer |-> NoTask, readers |-> {}])
          ~> (rooms_lock = [writer |-> NoTask, readers |-> {}])
    /\ (sync_lock # NoTask) ~> (sync_lock = NoTask)

\* A sync cycle holds the gate and waits for the lock of the room table,
\* which the session start of the other task holds for writing.
C40_Witness ==
    \E t, u \in Tasks :
        /\ sync_lock = t /\ pc[t] = "sy_rooms"
        /\ rooms_lock.writer = u /\ pc[u] = "sors_insert"
====
